---- MODULE Spec2Model ----
(***************************************************************************)
(* Fault-injection harness for an emulated guest (gdb/fliputils.py,        *)
(* gdb/qemu_utils.py, gdb/logger.py).  The guest (memory, registers,       *)
(* run state, snapshot store) sits behind the debugger/monitor bridge; the *)
(* command handlers are translated block by block and every bridge         *)
(* operation they issue is recorded in the order it is issued.             *)
(***************************************************************************)
EXTENDS Integers, Sequences, FiniteSets, TLC

VARIABLES
    mem,        \* guest physical memory: address -> byte
    regs,       \* guest registers: name -> set of the bit positions that are 1
    paused,     \* TRUE while the guest is stopped
    snaps,      \* snapshot store of the emulator: tag -> [mem, regs]
    ops,        \* bridge operations issued by the current command, in order
    logrows,    \* InjectionRecords emitted by the current command, in order
    out,        \* diagnostics printed by the current command, in order
    calls,      \* the latest inject_bitflip / inject_register_bitflip calls
    pc,         \* position of the command thread
    frame,      \* locals of the running handler
    outcome,    \* how the last handler ended: "" while none has ended
    nuuid,      \* number of uuid4() draws so far
    ncmd        \* number of commands typed so far

vars == <<mem, regs, paused, snaps, ops, logrows, out, calls, pc, frame,
          outcome, nuuid, ncmd>>

(***************************************************************************)
(* Bounds of the exploration.                                              *)
(***************************************************************************)
MaxCmds == 2
MaxTimes == 3
MaxCalls == 2

(***************************************************************************)
(* Python values.  An int is unbounded: [neg, bits] stands for             *)
(*   sum of 2^b, b in bits              when neg = FALSE                   *)
(*   -1 - (sum of 2^b, b in bits)       when neg = TRUE  (bits of ~x)      *)
(* An optional argument (None or a value) is a set of at most one element. *)
(* Text that the code takes apart (duration literals, hex literals) is a   *)
(* sequence of one-character strings.                                      *)
(***************************************************************************)
None == {}
Some(v) == {v}
The(o) == CHOOSE v \in o : TRUE

BitSet(n, j) == (n \div (2 ^ j)) % 2 = 1
SetMax(S) == CHOOSE m \in S : \A k \in S : k <= m
SetMin(S) == CHOOSE m \in S : \A k \in S : m <= k

\* a small machine integer as a Python int
FromInt(n) ==
    IF n >= 0 THEN [neg |-> FALSE, bits |-> {j \in 0..30 : BitSet(n, j)}]
    ELSE [neg |-> TRUE, bits |-> {j \in 0..30 : BitSet(-n - 1, j)}]

\* int.from_bytes(bytes, "little")
IntFromBytes(bytes) ==
    [neg |-> FALSE,
     bits |-> UNION {{8 * (i - 1) + j : j \in {k \in 0..7 : BitSet(bytes[i], k)}}
                        : i \in 1..Len(bytes)}]

ByteOf(bits, i) ==
    LET on == {j \in 0..7 : 8 * (i - 1) + j \in bits}
        RECURSIVE Sum(_)
        Sum(S) == IF S = {} THEN 0
                  ELSE LET j == CHOOSE k \in S : TRUE IN 2 ^ j + Sum(S \ {j})
    IN Sum(on)

\* int.to_bytes(v, length, "little") of an unsigned int: "" or the exception
ToBytesError(v, length) ==
    IF v.neg \/ \E b \in v.bits : b >= 8 * length THEN "OverflowError" ELSE ""

\* a variant that lays the bytes out most significant first
IntToBytes_big_endian(v, length) == [i \in 1..length |-> ByteOf(v.bits, length + 1 - i)]

IntToBytes(v, length) == [i \in 1..length |-> ByteOf(v.bits, i)]

\* a variant that sets the bit instead of inverting it
XorBit_sets_bit(v, bit) == [v EXCEPT !.bits = @ \cup {bit}]

\* v ^ (1 << bit), bit >= 0 (a negative shift count raises ValueError)
XorBit(v, bit) ==
    [v EXCEPT !.bits = IF bit \in @ THEN @ \ {bit} ELSE @ \cup {bit}]

\* v & ((1 << bitcount) - 1)
MaskTo(v, bitcount) ==
    IF v.neg THEN (0..(bitcount - 1)) \ v.bits ELSE v.bits \cap (0..(bitcount - 1))

HexChars == <<"0", "1", "2", "3", "4", "5", "6", "7",
              "8", "9", "a", "b", "c", "d", "e", "f">>

RECURSIVE HexFrom(_, _)
HexFrom(bits, k) ==
    IF k < 0 THEN ""
    ELSE HexChars[ByteOf({b - 4 * k : b \in {c \in bits : c \div 4 = k}}, 1) + 1]
            \o HexFrom(bits, k - 1)

\* hex(v)
hex(v) ==
    LET mag == IF v.neg
               THEN LET p == SetMin({q \in 0..(SetMax(v.bits \cup {0}) + 1) : q \notin v.bits})
                    IN (v.bits \ (0..(p - 1))) \cup {p}
               ELSE v.bits
        digits == IF mag = {} THEN "0" ELSE HexFrom(mag, SetMax(mag) \div 4)
    IN (IF v.neg THEN "-0x" ELSE "0x") \o digits

DecChars == <<"0", "1", "2", "3", "4", "5", "6", "7", "8", "9">>

RECURSIVE Dec(_)
\* "%s" % n for a machine integer n
Dec(n) ==
    IF n < 0 THEN "-" \o Dec(-n)
    ELSE IF n < 10 THEN DecChars[n + 1]
    ELSE Dec(n \div 10) \o DecChars[(n % 10) + 1]

RECURSIVE Join(_)
\* the text of a character sequence
Join(cs) == IF cs = <<>> THEN "" ELSE Head(cs) \o Join(Tail(cs))

\* random.randint(a, b): every value of a short interval, the two ends of a
\* long one
randint(a, b) == IF b - a <= 3 THEN a..b ELSE {a, b}

(***************************************************************************)
(* The guest behind the bridge.                                            *)
(***************************************************************************)
\* how the guest's memory takes a write: "ram" stores it, "rom" ignores it
\* silently, "inv" stores the complement (a device register)
MemKind(a) ==
    CASE a \in 4095..4101 -> "ram"
      [] a = 8192 -> "rom"
      [] a = 12288 -> "inv"
      [] OTHER -> "unmapped"

InitMem ==
    (4095 :> 17) @@ (4096 :> 239) @@ (4097 :> 190) @@ (4098 :> 173) @@
    (4099 :> 222) @@ (4100 :> 34) @@ (4101 :> 0) @@ (8192 :> 85) @@ (12288 :> 0)

\* the world a handler acts on: the guest, and what the handler has issued,
\* emitted and printed so far; exc is the pending Python exception
World ==
    [mem |-> mem, regs |-> regs, paused |-> paused, snaps |-> snaps,
     ops |-> <<>>, logrows |-> <<>>, out |-> <<>>, calls |-> calls,
     nuuid |-> nuuid, exc |-> "", ret |-> ""]

Issue(w, op, arg, n) ==
    [w EXCEPT !.ops = Append(@, [op |-> op, arg |-> arg, n |-> n, paused |-> w.paused])]

Raise(w, e) == [w EXCEPT !.exc = e]
Say(w, msg) == [w EXCEPT !.out = Append(@, msg)]
Return(w, r) == [w EXCEPT !.ret = r]

\* inferior.read_memory(address, length)
MemReadable(w, address, length) ==
    \A a \in address..(address + length - 1) : a \in DOMAIN w.mem

read_memory(w, address, length) ==
    [i \in 1..length |-> w.mem[address + i - 1]]

\* inferior.write_memory(address, bytes)
write_memory(w, address, bytes) ==
    LET stored(a) ==
            LET b == bytes[a - address + 1] IN
            CASE MemKind(a) = "ram" -> b
              [] MemKind(a) = "rom" -> w.mem[a]
              [] OTHER -> 255 - b
    IN [w EXCEPT !.mem = [a \in DOMAIN w.mem |->
            IF a \in address..(address + Len(bytes) - 1) THEN stored(a) ELSE w.mem[a]]]

\* logger.log_single: the record goes to the CSV log, or to the console when
\* no log is open
log_single(w, target, old, new) ==
    [w EXCEPT !.logrows = Append(@, <<target, old, new>>)]

\* remember a call of an injection primitive: its arguments (`at` is the
\* address, or the first bit of the 64 a register flip works on), the guest
\* before and after, and how the call ended
Called(w0, w1, fn, target, at, width, bit) ==
    LET c == [fn |-> fn, target |-> target, at |-> at, width |-> width, bit |-> bit,
              before |-> w0.mem, after |-> w1.mem,
              rbefore |-> w0.regs, rafter |-> w1.regs,
              exc |-> w1.exc, ret |-> w1.ret,
              rows |-> SubSeq(w1.logrows, Len(w0.logrows) + 1, Len(w1.logrows))]
        all == Append(w1.calls, c)
    IN [w1 EXCEPT !.calls =
            IF Len(all) > MaxCalls THEN SubSeq(all, Len(all) - MaxCalls + 1, Len(all))
            ELSE all]

\* a variant whose final assertion only asks that the new value differs
inject_bitflip_body_unchecked(w, address, bytewidth, bit) ==
    IF bytewidth < 1 THEN Raise(w, "AssertionError")
    ELSE IF ~MemReadable(w, address, bytewidth)
    THEN Raise(Issue(w, "read_mem", hex(FromInt(address)), bytewidth), "gdb.MemoryError")
    ELSE
    LET w1 == Issue(w, "read_mem", hex(FromInt(address)), bytewidth)
        ovalue == IntFromBytes(read_memory(w1, address, bytewidth))
    IN IF bit < 0 THEN Raise(w1, "ValueError")
       ELSE
       LET nvalue == XorBit(ovalue, bit) IN
       IF ToBytesError(nvalue, bytewidth) # "" THEN Raise(w1, ToBytesError(nvalue, bytewidth))
       ELSE
       LET w2 == write_memory(Issue(w1, "write_mem", hex(FromInt(address)), bytewidth),
                              address, IntToBytes(nvalue, bytewidth))
           w3 == Issue(w2, "read_mem", hex(FromInt(address)), bytewidth)
       IN IF ~(nvalue # ovalue) THEN Raise(w3, "AssertionError")
          ELSE log_single(w3, hex(FromInt(address)), hex(ovalue), hex(nvalue))

inject_bitflip_body(w, address, bytewidth, bit) ==
    IF bytewidth < 1 THEN Raise(w, "AssertionError")
    ELSE IF ~MemReadable(w, address, bytewidth)
    THEN Raise(Issue(w, "read_mem", hex(FromInt(address)), bytewidth), "gdb.MemoryError")
    ELSE
    LET w1 == Issue(w, "read_mem", hex(FromInt(address)), bytewidth)
        ovalue == IntFromBytes(read_memory(w1, address, bytewidth))
    IN IF bit < 0 THEN Raise(w1, "ValueError")
       ELSE
       LET nvalue == XorBit(ovalue, bit) IN
       IF ToBytesError(nvalue, bytewidth) # "" THEN Raise(w1, ToBytesError(nvalue, bytewidth))
       ELSE
       LET w2 == write_memory(Issue(w1, "write_mem", hex(FromInt(address)), bytewidth),
                              address, IntToBytes(nvalue, bytewidth))
           w3 == Issue(w2, "read_mem", hex(FromInt(address)), bytewidth)
           rnvalue == IntFromBytes(read_memory(w3, address, bytewidth))
       IN IF ~(nvalue = rnvalue /\ nvalue # ovalue) THEN Raise(w3, "AssertionError")
          ELSE log_single(w3, hex(FromInt(address)), hex(ovalue), hex(nvalue))

\* inject_bitflip(address, bytewidth, bit); rbit is the draw used when bit is None
inject_bitflip(w, address, bytewidth, bit, rbit) ==
    LET b == IF bit = None THEN rbit ELSE The(bit)
    IN Called(w, inject_bitflip_body(w, address, bytewidth, b),
              "inject_bitflip", hex(FromInt(address)), address, bytewidth, b)


\* qemu_hmp(cmdstr): the monitor command and what the emulator does with it
qemu_hmp(w, verb, arg, n) ==
    LET w1 == Issue(w, verb, arg, n)
        state == [mem |-> w.mem, regs |-> w.regs]
    IN CASE verb = "cont" -> [w1 EXCEPT !.paused = FALSE]
         [] verb = "stop_delayed" -> [w1 EXCEPT !.paused = TRUE]
         [] verb = "savevm" ->
                [w1 EXCEPT !.snaps = [t \in DOMAIN @ \cup {arg} |->
                                        IF t = arg THEN state ELSE @[t]]]
         [] verb = "loadvm" ->
                IF arg \in DOMAIN w.snaps
                THEN [w1 EXCEPT !.mem = w.snaps[arg].mem, !.regs = w.snaps[arg].regs]
                ELSE w1
         [] verb = "delvm" ->
                [w1 EXCEPT !.snaps = [t \in DOMAIN @ \ {arg} |-> @[t]]]
         [] OTHER -> w1

\* a variant that resumes the guest after the delayed stop
step_ns_resumes_last(w, nstext, n) ==
    qemu_hmp(qemu_hmp(w, "stop_delayed", nstext, n), "cont", "", 0)

\* step_ns(ns)
step_ns(w, nstext, n) ==
    qemu_hmp(qemu_hmp(w, "cont", "", 0), "stop_delayed", nstext, n)

(***************************************************************************)
(* Memory tree and RAM sampling.                                           *)
(***************************************************************************)
\* mtree()["memory"]: the flat view the monitor reports for the guest
MemoryFlatView ==
    <<[start |-> 4096, end |-> 4098, kind |-> "ram"],
      [start |-> 8192, end |-> 8192, kind |-> "romd"],
      [start |-> 4099, end |-> 4100, kind |-> "ram"],
      [start |-> 12288, end |-> 12288, kind |-> "i/o"]>>

\* a variant that takes the ranges of every kind
ram_ranges_any_kind(view) == view

\* FlatView.ram_ranges
ram_ranges(view) == SelectSeq(view, LAMBDA r : r.kind = "ram")

RECURSIVE SumLens(_)
SumLens(ranges) ==
    IF ranges = <<>> THEN 0
    ELSE (Head(ranges).end - Head(ranges).start) + SumLens(Tail(ranges))

RECURSIVE WalkRanges_inclusive_end(_, _)
\* a variant of the loop that takes the end of a range for one of its bytes
WalkRanges_inclusive_end(ranges, offset) ==
    IF ranges = <<>> THEN -1
    ELSE LET off == offset + Head(ranges).start
         IN IF off <= Head(ranges).end THEN off
            ELSE WalkRanges_inclusive_end(Tail(ranges), off - Head(ranges).end)

RECURSIVE WalkRanges(_, _)
\* the loop of FlatView.random_address: -1 stands for the failed final assertion
WalkRanges(ranges, offset) ==
    IF ranges = <<>> THEN -1
    ELSE LET off == offset + Head(ranges).start
         IN IF off < Head(ranges).end THEN off
            ELSE WalkRanges(Tail(ranges), off - Head(ranges).end)

\* the offsets FlatView.random_address can draw
random_offsets(view) == randint(0, SumLens(ram_ranges(view)) - 1)

\* FlatView.random_address with the drawn offset
random_address(view, offset) == WalkRanges(ram_ranges(view), offset)

\* sample_address(): the monitor query, then the draw
sample_address(w) == qemu_hmp(w, "info mtree -f", "", 0)


(***************************************************************************)
(* Registers.                                                              *)
(***************************************************************************)
\* frame.architecture().registers(): each register's type string and size,
\* and how the guest takes a write to it ("rw" stores it, "ro" ignores it,
\* "w1c" stores it with the sticky bit 1 cleared)
ArchRegisters ==
    <<[name |-> "x0", type |-> "long", sizeof |-> 8, mode |-> "rw"],
      [name |-> "x1", type |-> "long", sizeof |-> 8, mode |-> "ro"],
      [name |-> "x2", type |-> "long", sizeof |-> 8, mode |-> "w1c"],
      [name |-> "cpsr", type |-> "int", sizeof |-> 4, mode |-> "rw"],
      [name |-> "v0", type |-> "union aarch64v", sizeof |-> 16, mode |-> "rw"]>>

InitRegs ==
    ("x0" :> {0, 2}) @@ ("x1" :> {1}) @@ ("x2" :> {1, 4}) @@ ("cpsr" :> {2}) @@
    ("v0" :> {0, 64, 127})

RegNamed(name) == CHOOSE r \in {ArchRegisters[i] : i \in DOMAIN ArchRegisters} : r.name = name
IsRegister(name) == \E i \in DOMAIN ArchRegisters : ArchRegisters[i].name = name

\* Registers.list_registers: the names kept by the type allow-list
list_registers ==
    LET kept == SelectSeq(ArchRegisters,
                    LAMBDA r : r.type \in {"long", "void *", "void (*)()", "union aarch64v"})
    IN [i \in DOMAIN kept |-> kept[i].name]

\* int(value) of a 64-bit two's-complement pattern taken from bit `lo` up
SignedAt(pattern, lo) ==
    LET p == {b - lo : b \in {c \in pattern : c \in lo..(lo + 63)}}
    IN IF 63 \in p THEN [neg |-> TRUE, bits |-> (0..63) \ p]
       ELSE [neg |-> FALSE, bits |-> p]

\* whether the debugger takes the decimal literal of v: one that does not fit
\* 64 bits is either refused or cut to 64 bits, depending on the debugger
FitsLiteral(v) == \A b \in v.bits : b <= 63

\* the guest's register after "set <lvalue> = v" on the 64 bits from `lo` up
StoreAt(w, name, lo, v) ==
    LET written == {b + lo : b \in MaskTo(v, 64)}
        keep == {b \in w.regs[name] : b \notin lo..(lo + 63)}
        mode == RegNamed(name).mode
        new == CASE mode = "rw" -> keep \cup written
                 [] mode = "ro" -> w.regs[name]
                 [] OTHER -> (keep \cup written) \ {1}
    IN [w EXCEPT !.regs[name] = new]

\* a variant that compares the Python ints as they are
same_unmasked(a, b, bitcount) == a = b

\* (a & bitmask) == (b & bitmask)
same_masked(a, b, bitcount) == MaskTo(a, bitcount) = MaskTo(b, bitcount)

\* the body of inject_register_bitflip's second try block; d holds the draws
\* (d.bit, d.index) and the debugger's choice d.cut for an oversized literal
register_flip_try(w, name, bit, d) ==
    LET r == RegNamed(name)
        bitcount == IF 8 * r.sizeof < 64 THEN 8 * r.sizeof ELSE 64
        b == IF bit = None THEN d.bit ELSE The(bit)
        vector == r.type = "union aarch64v"
        lo == IF vector THEN 64 * d.index ELSE 0
        w1 == IF vector THEN Issue(w, "read_reg", name, d.index) ELSE w
        oldval == SignedAt(w1.regs[name], lo)
    IN IF ~vector /\ r.sizeof # 8 THEN Raise(w, "AssertionError")
       ELSE IF b < 0 THEN Raise(w1, "ValueError")
       ELSE
       LET newval == XorBit(oldval, b) IN
       IF ~FitsLiteral(newval) /\ ~d.cut
       THEN Raise(Issue(w1, "write_reg", name, lo), "gdb.error")
       ELSE
       LET w2 == StoreAt(Issue(w1, "write_reg", name, lo), name, lo, newval)
           w3 == Issue(w2, "read_reg", name, lo)
           rrval == SignedAt(w3.regs[name], lo)
       IN IF same_masked(newval, rrval, bitcount)
          THEN Return(log_single(w3, name, hex(oldval), hex(rrval)), "True")
          ELSE IF same_masked(oldval, rrval, bitcount)
          THEN Return(Say(w3, "Bitflip could not be injected"), "False")
          ELSE Raise(w3, "RuntimeError")

inject_register_bitflip_body(w, name, bit, d) ==
    IF ~IsRegister(name)
    THEN Raise(Say(Issue(w, "read_reg", name, 0), "exception when reading register value"),
               "UnboundLocalError")
    ELSE LET t == register_flip_try(Issue(w, "read_reg", name, 0), name, bit, d)
         IN IF t.exc # ""
            THEN Return(Raise(Say(t, "[inject_register_bitflip] exception"), ""), "None")
            ELSE t

\* inject_register_bitflip(register_name, bit): ret is "True", "False" or "None"
inject_register_bitflip(w, name, bit, d) ==
    Called(w, inject_register_bitflip_body(Return(w, ""), name, bit, d),
           "inject_register_bitflip", name,
           IF IsRegister(name) /\ RegNamed(name).type = "union aarch64v" THEN 64 * d.index
           ELSE 0,
           8, IF bit = None THEN d.bit ELSE The(bit))

\* the draws inject_register_bitflip can make for a register
RegDraws(bit) ==
    {[bit |-> b, index |-> h, cut |-> c] :
        b \in (IF bit = None THEN randint(0, 63) ELSE {0}),
        h \in randint(0, 1),
        c \in (IF bit # None /\ The(bit) > 63 THEN BOOLEAN ELSE {FALSE})}

RECURSIVE Glob(_, _)
\* re.match("^" + ".*".join(escape(segment)) + "$", name): `*` matches any run
Glob(pattern, name) ==
    IF pattern = <<>> THEN name = <<>>
    ELSE IF Head(pattern) = "*"
    THEN Glob(Tail(pattern), name) \/ (name # <<>> /\ Glob(pattern, Tail(name)))
    ELSE name # <<>> /\ Head(name) = Head(pattern) /\ Glob(Tail(pattern), Tail(name))

\* the characters of the register names
NameChars(name) ==
    CASE name = "x0" -> <<"x", "0">>
      [] name = "x1" -> <<"x", "1">>
      [] name = "x2" -> <<"x", "2">>
      [] name = "v0" -> <<"v", "0">>
      [] name = "cpsr" -> <<"c", "p", "s", "r">>
      [] OTHER -> <<>>

\* a variant that forgets the pattern
matching_registers_unfiltered(register_name) == list_registers

\* the registers inject_reg_internal selects: the inventory, filtered by the
\* pattern when one is given and not empty
matching_registers(register_name) ==
    IF register_name = None \/ register_name = Some(<<>>) THEN list_registers
    ELSE SelectSeq(list_registers, LAMBDA r : Glob(The(register_name), NameChars(r)))

(***************************************************************************)
(* Literals.                                                               *)
(***************************************************************************)
DigitVal(c) ==
    CASE c = "0" -> 0 [] c = "1" -> 1 [] c = "2" -> 2 [] c = "3" -> 3
      [] c = "4" -> 4 [] c = "5" -> 5 [] c = "6" -> 6 [] c = "7" -> 7
      [] c = "8" -> 8 [] c = "9" -> 9 [] c = "a" -> 10 [] c = "b" -> 11
      [] c = "c" -> 12 [] c = "d" -> 13 [] c = "e" -> 14 [] c = "f" -> 15
      [] OTHER -> 99

RECURSIVE DigitsVal(_, _, _)
DigitsVal(cs, base, acc) ==
    IF cs = <<>> THEN acc
    ELSE DigitsVal(Tail(cs), base, acc * base + DigitVal(Head(cs)))

\* int(text, base): [ok, val]; ok = FALSE stands for ValueError
ParseInt(cs, base) ==
    LET signed == cs # <<>> /\ Head(cs) \in {"+", "-"}
        body == IF signed THEN Tail(cs) ELSE cs
        prefixed == base = 16 /\ Len(body) >= 2 /\ body[1] = "0" /\ body[2] = "x"
        digits == IF prefixed THEN SubSeq(body, 3, Len(body)) ELSE body
        ok == digits # <<>> /\ \A i \in DOMAIN digits : DigitVal(digits[i]) < base
        mag == DigitsVal(digits, base, 0)
    IN IF ok THEN [ok |-> TRUE, val |-> IF signed /\ Head(cs) = "-" THEN -mag ELSE mag]
       ELSE [ok |-> FALSE, val |-> 0]

\* sorted(time_units.items()): the units in the order parse_time tries them
TimeUnits == << <<>>, <<"m">>, <<"m", "s">>, <<"n", "s">>, <<"s">>, <<"u", "s">> >>

\* a unit's multiplier, as a small factor and a count of decimal zeros
\* (60 * 10^9 does not fit a machine integer)
UnitFactor(k) == IF k = 2 THEN 6 ELSE 1

UnitZeros(k) ==
    CASE k = 1 -> 0
      [] k = 2 -> 10
      [] k = 3 -> 6
      [] k = 4 -> 0
      [] k = 5 -> 9
      [] OTHER -> 3

RECURSIVE Zeros(_)
Zeros(z) == IF z = 0 THEN "" ELSE "0" \o Zeros(z - 1)

\* a variant of the test that takes a unit's last character for the unit
EndsWith_last_character(s, unit) ==
    unit = <<>> \/ (s # <<>> /\ s[Len(s)] = unit[Len(unit)])

EndsWith(s, unit) ==
    Len(unit) <= Len(s) /\ SubSeq(s, Len(s) - Len(unit) + 1, Len(s)) = unit

\* res * mul: `text` is the product in decimal, `val` the product when it is
\* below 10^9 (every interval the campaigns of this model use is) and -1
\* otherwise
UnitProduct(res, k) ==
    LET text == Dec(res * UnitFactor(k)) \o Zeros(UnitZeros(k))
        small == res * UnitFactor(k) * (10 ^ UnitZeros(k))
    IN [ok |-> TRUE, text |-> text,
        val |-> IF UnitZeros(k) <= 9 /\ res * UnitFactor(k) < 10 ^ (9 - UnitZeros(k))
                THEN small ELSE -1]

RECURSIVE parse_time_from(_, _)
parse_time_from(s, k) ==
    IF k > Len(TimeUnits) THEN [ok |-> FALSE, text |-> "", val |-> 0]
    ELSE IF ~EndsWith(s, TimeUnits[k]) THEN parse_time_from(s, k + 1)
    ELSE LET unit == TimeUnits[k]
             \* s[:-len(unit)]: the empty text when the unit is empty
             res == ParseInt(IF unit = <<>> THEN <<>>
                             ELSE SubSeq(s, 1, Len(s) - Len(unit)), 10)
         IN IF ~res.ok THEN parse_time_from(s, k + 1)
            ELSE IF res.val <= 0 THEN [ok |-> FALSE, text |-> "", val |-> 0]
            ELSE UnitProduct(res.val, k)

\* parse_time(s): ok = FALSE stands for ValueError
parse_time(s) == parse_time_from(s, 1)

\* gdb.parse_and_eval(expression) as the debugger resolves it for this guest
parse_and_eval(expr) ==
    CASE expr = "0x1000" -> [ok |-> TRUE, val |-> 4096]
      [] expr = "0xfff" -> [ok |-> TRUE, val |-> 4095]
      [] expr = "main+0x3" -> [ok |-> TRUE, val |-> 4099]
      [] expr = "0x2000" -> [ok |-> TRUE, val |-> 8192]
      [] expr = "0x3000" -> [ok |-> TRUE, val |-> 12288]
      [] expr = "0x4000" -> [ok |-> TRUE, val |-> 16384]
      [] expr = "-1" -> [ok |-> TRUE, val |-> -1]
      [] OTHER -> [ok |-> FALSE, val |-> 0]


(***************************************************************************)
(* Command handlers.  A handler that runs a campaign is split at its loop: *)
(* its validation and snapshot set-up, one iteration, and what follows the *)
(* loop.  The other handlers are one step each.                            *)
(***************************************************************************)
\* the world of a handler that is under way
Running == [World EXCEPT !.ops = ops, !.logrows = logrows, !.out = out]

Commit(w) ==
    /\ mem' = w.mem /\ regs' = w.regs /\ paused' = w.paused /\ snaps' = w.snaps
    /\ ops' = w.ops /\ logrows' = w.logrows /\ out' = w.out /\ calls' = w.calls
    /\ nuuid' = w.nuuid

\* the handler ends here: normally, or by the exception that leaves it
Ends(w, f) ==
    \E v \in {w} :
        /\ Commit(v)
        /\ pc' = "idle"
        /\ frame' = f
        /\ outcome' = IF v.exc # "" THEN v.exc ELSE "returned"

Continues(w, f, at) ==
    \E v \in {w} :
        /\ Commit(v)
        /\ pc' = at
        /\ frame' = f
        /\ outcome' = ""

Typed(limit) ==
    /\ pc = "idle"
    /\ ncmd < limit
    /\ ncmd' = ncmd + 1

\* parse_args_safely: None (an error is printed) when a required option is missing
parse_args_safely(required) == \A i \in DOMAIN required : required[i] # None

\* stop_delayed --ns N
stop_delayed(limit, Args) ==
    \E a \in Args :
        /\ Typed(limit)
        /\ LET f == [cmd |-> "stop_delayed", args |-> a]
           IN IF ~parse_args_safely(<<a.ns>>) THEN Ends(Say(World, "usage"), f)
              ELSE Ends(step_ns(World, The(a.ns), -1), f)

\* the injection that `inject` performs once its arguments are parsed
inject_parsed(w, address, bytewidth, bit, roff) ==
    IF address # ""
    THEN LET a == parse_and_eval(address)
             w1 == Issue(w, "eval", address, 0)
         IN IF ~a.ok THEN Say(w1, "Error parsing address")
            ELSE IF bytewidth < 1 \/ a.val < 0 THEN Say(w1, "invalid bytewidth or address")
            ELSE inject_bitflip(w1, a.val, bytewidth, Some(bit), 0)
    ELSE inject_bitflip(sample_address(w), random_address(MemoryFlatView, roff),
                        1, Some(bit), 0)

\* inject --address EXPR --bytewidth W --bit B
inject(limit, Args) ==
    \E a \in Args :
      \E roff \in (IF a.address = Some("") THEN random_offsets(MemoryFlatView) ELSE {0}) :
        /\ Typed(limit)
        /\ LET f == [cmd |-> "inject", args |-> a]
           IN IF ~parse_args_safely(<<a.address, a.bytewidth, a.bit>>)
              THEN Ends(Say(World, "usage"), f)
              ELSE Ends(inject_parsed(World, The(a.address), The(a.bytewidth),
                                      The(a.bit), roff), f)

\* the handler, or the campaign iteration, that called inject_reg_internal
\* goes on after it
Leave(w, f) ==
    IF f.back = "idle" THEN Ends(w, f)
    ELSE Continues(w, [f EXCEPT !.i = @ + 1, !.pending = {}], f.back)

\* inject_reg_internal(register_name, bit) up to its loop: the registers to
\* try.  random.shuffle fixes the order of the tries; the loop below draws the
\* next register among those not tried yet, which gives the same orders.
inject_reg_internal(w, f, register_name, bit) ==
    LET registers == matching_registers(register_name)
    IN IF registers = <<>> THEN Leave(Say(w, "No registers found!"), f)
       ELSE Continues(w, [f EXCEPT !.pending = {registers[i] : i \in DOMAIN registers},
                                   !.regbit = bit],
                      "try_register")

\* a variant of the loop pass that goes on to the next register after a success
try_register_past_success ==
    /\ pc = "try_register"
    /\ UNCHANGED ncmd
    /\ \E reg \in frame.pending, d \in RegDraws(frame.regbit) :
        \E w \in {inject_register_bitflip(Running, reg, frame.regbit, d)} :
          IF frame.pending = {reg}
          THEN Leave(IF w.ret = "True" THEN w
                     ELSE Say(Say(w, "Trying another register..."),
                              "Out of registers to try!"), frame)
          ELSE Continues(IF w.ret = "True" THEN w ELSE Say(w, "Trying another register..."),
                         [frame EXCEPT !.pending = @ \ {reg}], "try_register")

\* one pass of the for/else loop of inject_reg_internal
try_register ==
    /\ pc = "try_register"
    /\ UNCHANGED ncmd
    /\ \E reg \in frame.pending, d \in RegDraws(frame.regbit) :
        \E w \in {inject_register_bitflip(Running, reg, frame.regbit, d)} :
          IF w.ret = "True" THEN Leave(w, frame)
          ELSE IF frame.pending = {reg}
          THEN Leave(Say(Say(w, "Trying another register..."), "Out of registers to try!"),
                     frame)
          ELSE Continues(Say(w, "Trying another register..."),
                         [frame EXCEPT !.pending = @ \ {reg}], "try_register")

\* inject_reg --register NAME_OR_WILDCARD --bit B
inject_reg(limit, Args) ==
    \E a \in Args :
        /\ Typed(limit)
        /\ LET f == [cmd |-> "inject_reg", args |-> a, back |-> "idle", i |-> 0,
                     pending |-> {}, regbit |-> None]
           IN IF ~parse_args_safely(<<a.register, a.bit>>)
              THEN Ends(Say(World, "usage"), f)
              ELSE inject_reg_internal(World, f, a.register, a.bit)

\* appinject: building its parser chains add_argument on the value the first
\* add_argument returns, which is an argparse action, not the parser
appinject(limit, Args) ==
    \E a \in Args :
        /\ Typed(limit)
        /\ Ends(Raise(World, "AttributeError"), [cmd |-> "appinject", args |-> a])

\* a variant of the validation block that does not compare the two intervals
campaign_error_unordered(times, minlit, maxlit) ==
    IF times < 1 THEN "fatal: times < 1"
    ELSE IF ~parse_time(minlit).ok \/ ~parse_time(maxlit).ok THEN "ValueError"
    ELSE ""

\* the validation block shared by autoinject and snapinject: "" or the error
campaign_error(times, minlit, maxlit) ==
    IF times < 1 THEN "fatal: times < 1"
    ELSE IF ~parse_time(minlit).ok \/ ~parse_time(maxlit).ok THEN "ValueError"
    ELSE IF ~(0 < parse_time(minlit).val /\ parse_time(minlit).val <= parse_time(maxlit).val)
    THEN "fatal: min_interval > max_interval"
    ELSE ""

\* the draws one campaign iteration can make before it selects a register
IterDraws(f) ==
    LET untargeted == f.location = None /\ f.bit_index = None
    IN {[ns |-> ns, roff |-> roff, rbit |-> rbit, d |-> d] :
          ns \in randint(f.mint, f.maxt),
          roff \in (IF f.ftype = "ram" /\ untargeted
                    THEN random_offsets(MemoryFlatView) ELSE {0}),
          rbit \in (IF f.ftype = "ram" /\ f.bit_index = None THEN randint(0, 7) ELSE {0}),
          d \in (IF f.ftype = "reg" /\ ~untargeted THEN RegDraws(f.bit_index)
                 ELSE {[bit |-> 0, index |-> 0, cut |-> FALSE]})}

\* a variant that injects without stepping the guest first
autoinject_inner_unstepped(f, r) ==
    \E w1 \in {Running} :
       IF f.ftype = "reg" THEN inject_reg_internal(w1, f, None, None)
       ELSE IF f.ftype = "ram"
       THEN \E w \in {inject_bitflip(sample_address(w1),
                                     random_address(MemoryFlatView, r.roff), 1, None, r.rbit)} :
               IF w.exc # "" THEN Ends(w, f)
               ELSE Continues(w, [f EXCEPT !.i = @ + 1], f.back)
       ELSE Continues(w1, [f EXCEPT !.i = @ + 1], f.back)

\* one iteration of autoinject_inner
autoinject_inner(f, r) ==
    \E w1 \in {step_ns(Running, Dec(r.ns), r.ns)} :
       IF f.ftype = "reg" THEN inject_reg_internal(w1, f, None, None)
       ELSE IF f.ftype = "ram"
       THEN \E w \in {inject_bitflip(sample_address(w1),
                                     random_address(MemoryFlatView, r.roff), 1, None, r.rbit)} :
               IF w.exc # "" THEN Ends(w, f)
               ELSE Continues(w, [f EXCEPT !.i = @ + 1], f.back)
       ELSE Continues(w1, [f EXCEPT !.i = @ + 1], f.back)

\* autoinject: argument parsing and validation
autoinject(limit, Args) ==
    \E a \in Args :
        /\ Typed(limit)
        /\ LET f == [cmd |-> "autoinject", args |-> a]
               err == campaign_error(The(a.times), The(a.minlit), The(a.maxlit))
           IN IF ~parse_args_safely(<<a.times, a.minlit, a.maxlit, a.ftype>>)
              THEN Ends(Say(World, "usage"), f)
              ELSE IF err # "" THEN Ends(Say(World, "Error: " \o err), f)
              ELSE Continues(World,
                       [cmd |-> "autoinject", args |-> a, times |-> The(a.times),
                        mint |-> parse_time(The(a.minlit)).val,
                        maxt |-> parse_time(The(a.maxlit)).val,
                        ftype |-> The(a.ftype), location |-> None, bit_index |-> None,
                        i |-> 0, back |-> "autoinject_loop", pending |-> {},
                        regbit |-> None],
                       "autoinject_loop")

\* autoinject: one iteration of the loop of autoinject_inner
autoinject_iteration ==
    /\ pc = "autoinject_loop"
    /\ frame.i < frame.times
    /\ UNCHANGED ncmd
    /\ \E r \in IterDraws(frame) : autoinject_inner(frame, r)

\* autoinject: after the loop
autoinject_done ==
    /\ pc = "autoinject_loop"
    /\ frame.i = frame.times
    /\ UNCHANGED ncmd
    /\ Ends(Say(Running, "Total injection duration"), frame)


\* uuid.uuid4(): a tag no earlier draw and no user has used
uuid4(n) == [kind |-> "uuid", text |-> "uuid-" \o Dec(n)]

\* the test snapinject makes of --fault-location and --bit-index
pair_rejected(location, bit_index) ==
    (location = None /\ bit_index # None) /\ (location # None /\ bit_index = None)

\* send_to_qemu_serial: the name is bound nowhere in the harness
send_to_qemu_serial(w) == Raise(w, "NameError")

\* snapinject: argument parsing, validation, snapshot set-up
snapinject(limit, Args) ==
    \E a \in Args :
        /\ Typed(limit)
        /\ LET f == [cmd |-> "snapinject", args |-> a]
               err == campaign_error(The(a.times), The(a.minlit), The(a.maxlit))
               tmpname == uuid4(nuuid + 1)
               snapname == IF a.tag # None /\ The(a.tag) # ""
                           THEN [kind |-> "str", text |-> The(a.tag)] ELSE tmpname
               w == [World EXCEPT !.nuuid = @ + 1]
               g == [cmd |-> "snapinject", args |-> a, times |-> The(a.times),
                     mint |-> parse_time(The(a.minlit)).val,
                     maxt |-> parse_time(The(a.maxlit)).val,
                     ftype |-> The(a.ftype), location |-> a.location,
                     bit_index |-> a.bit_index,
                     obtime |-> parse_time(The(a.observe)).val,
                     snapname |-> snapname, tmpname |-> tmpname, i |-> 0,
                     back |-> "snapinject_loop", pending |-> {}, regbit |-> None]
           IN IF ~parse_args_safely(<<a.times, a.minlit, a.maxlit, a.ftype, a.observe>>)
              THEN Ends(Say(World, "usage"), f)
              ELSE IF err # "" THEN Ends(Say(World, "Error: " \o err), f)
              ELSE IF ~parse_time(The(a.observe)).ok
              THEN Ends(Say(World, "Error: ValueError"), f)
              ELSE IF pair_rejected(a.location, a.bit_index)
              THEN Ends(Say(w, "Error: --bit-index and --fault-location must be both specified or both omitted."), g)
              ELSE IF snapname = tmpname
              THEN Continues(Say(qemu_hmp(w, "savevm", snapname.text, 0),
                                 "Create a tmp checkpoint"), g, "snapinject_loop")
              ELSE Continues(Say(qemu_hmp(w, "loadvm", snapname.text, 0),
                                 "Load checkpoint"), g, "snapinject_loop")

\* one iteration of snapinject's own loop (a location or a bit index is given)
snapinject_targeted(w, f, r) ==
    LET w1 == step_ns(w, Dec(r.ns), r.ns)
    IN IF f.ftype = "ram"
       THEN IF f.location = None THEN Raise(w1, "TypeError")
            ELSE LET a == ParseInt(The(f.location), 16)
                     t == IF a.ok THEN inject_bitflip(w1, a.val, 1, f.bit_index, r.rbit)
                          ELSE Raise(w1, "ValueError")
                 IN IF t.exc = "ValueError"
                    THEN Return(Raise(Say(t, "Error parsing RAM address"), ""), "return")
                    ELSE t
       ELSE IF f.ftype = "reg"
       THEN Return(inject_register_bitflip(w1,
                        IF f.location = None THEN "None" ELSE Join(The(f.location)),
                        f.bit_index, r.d), "")
       ELSE w1

\* snapinject: one iteration of the injection loop
snapinject_iteration ==
    /\ pc = "snapinject_loop"
    /\ frame.i < frame.times
    /\ UNCHANGED ncmd
    /\ \E r \in IterDraws(frame) :
         IF frame.location = None /\ frame.bit_index = None
         THEN autoinject_inner(frame, r)
         ELSE \E w \in {snapinject_targeted(Running, frame, r)} :
                IF w.exc # "" \/ w.ret = "return" THEN Ends(w, frame)
                ELSE Continues(w, [frame EXCEPT !.i = @ + 1], "snapinject_loop")

\* a variant that restores at once, without the observe step
snapinject_after_unobserved(w, f) ==
    LET w1 == Say(Say(w, "Total injection duration"), "Observing VM")
        w2 == IF f.snapname = f.tmpname
              THEN Say(qemu_hmp(Say(qemu_hmp(Say(w1, "time up."),
                                             "loadvm", f.snapname.text, 0),
                                    "Back to checkpoint"),
                                "delvm", f.tmpname.text, 0),
                       "Delete tmp VM checkpoint")
              ELSE Say(w1, "time up.")
    IN send_to_qemu_serial(w2)

\* a variant that restores and deletes whichever snapshot the campaign used
snapinject_after_deletes_any(w, f) ==
    LET w1 == step_ns(Say(Say(w, "Total injection duration"), "Observing VM"),
                      Dec(f.obtime), f.obtime)
        w2 == Say(qemu_hmp(Say(qemu_hmp(Say(w1, "time up."),
                                        "loadvm", f.snapname.text, 0),
                               "Back to checkpoint"),
                           "delvm", f.snapname.text, 0),
                  "Delete tmp VM checkpoint")
    IN send_to_qemu_serial(w2)

\* snapinject after the loop: observe, restore a temporary snapshot, and the
\* carriage return to the serial line
snapinject_after(w, f) ==
    LET w1 == step_ns(Say(Say(w, "Total injection duration"), "Observing VM"),
                      Dec(f.obtime), f.obtime)
        w2 == IF f.snapname = f.tmpname
              THEN Say(qemu_hmp(Say(qemu_hmp(Say(w1, "time up."),
                                             "loadvm", f.snapname.text, 0),
                                    "Back to checkpoint"),
                                "delvm", f.tmpname.text, 0),
                       "Delete tmp VM checkpoint")
              ELSE Say(w1, "time up.")
    IN send_to_qemu_serial(w2)

snapinject_done ==
    /\ pc = "snapinject_loop"
    /\ frame.i = frame.times
    /\ UNCHANGED ncmd
    /\ Ends(snapinject_after(Running, frame), frame)

(***************************************************************************)
(* Specifications.                                                         *)
(***************************************************************************)
BaseMem == [InitMem EXCEPT ![4101] = 1]

Init ==
    /\ mem = InitMem
    /\ regs = InitRegs
    /\ paused = TRUE
    /\ snaps = ("base" :> [mem |-> BaseMem, regs |-> InitRegs])
    /\ ops = <<>>
    /\ logrows = <<>>
    /\ out = <<>>
    /\ calls = <<>>
    /\ pc = "idle"
    /\ frame = [cmd |-> ""]
    /\ outcome = ""
    /\ nuuid = 0
    /\ ncmd = 0

Ns1 == <<"1", "n", "s">>
Ns2 == <<"2", "n", "s">>
Ms1 == <<"1", "m", "s">>
Ms2 == <<"2", "m", "s">>
Hex1000 == <<"0", "x", "1", "0", "0", "0">>

\* a debugger session: commands typed one after the other
SessionInject ==
    [address : {None, Some(""), Some("0x1000")}, bytewidth : {Some(1)}, bit : {Some(0)}]
SessionInjectReg == [register : {Some(<<"x", "*">>)}, bit : {Some(0)}]
SessionAuto ==
    [times : {Some(0), Some(1)}, minlit : {Some(Ns1)}, maxlit : {Some(Ns1)},
     ftype : {Some("ram"), Some("reg")}]
SessionSnap ==
    [times : {Some(1)}, minlit : {Some(Ns1)}, maxlit : {Some(Ns1)},
     ftype : {Some("ram")}, location : {Some(Hex1000)},
     bit_index : {Some(1)}, observe : {Some(Ns2)}, tag : {None, Some("base")}]

\* the range file of one line 0x1000-0x1004, as its lines' two numbers
RangeFile == <<[start |-> 4096, end |-> 4100]>>
SessionApp == [count : {Some(2), Some(5)}, range_file : {Some(RangeFile)}]

Next ==
    \/ stop_delayed(MaxCmds, [ns : {None, Some("500")}])
    \/ inject(MaxCmds, SessionInject)
    \/ inject_reg(MaxCmds, SessionInjectReg)
    \/ try_register
    \/ appinject(MaxCmds, SessionApp)
    \/ autoinject(MaxCmds, SessionAuto)
    \/ autoinject_iteration
    \/ autoinject_done
    \/ snapinject(MaxCmds, SessionSnap)
    \/ snapinject_iteration
    \/ snapinject_done

Spec == Init /\ [][Next]_vars

(***************************************************************************)
(* One snapinject invocation, with every combination of its options.       *)
(***************************************************************************)
Rom2000 == <<"2", "0", "0", "0">>
NotHex == <<"z", "z">>
RegX1 == <<"x", "1">>

SnapArgs ==
    {a \in [times : {Some(0), Some(1), Some(MaxTimes)}, minlit : {Some(Ns1)},
            maxlit : {Some(Ns1), Some(Ns2)}, ftype : {Some("ram"), Some("reg")},
            location : {None, Some(Hex1000), Some(Rom2000), Some(NotHex), Some(RegX1)},
            bit_index : {None, Some(0), Some(1)}, observe : {Some(Ns2)},
            tag : {None, Some(""), Some("base")}] :
        a.ftype = Some("reg") => a.times = Some(1) /\ a.maxlit = Some(Ns1)}

NextSnap ==
    \/ snapinject(1, SnapArgs)
    \/ snapinject_iteration
    \/ try_register
    \/ snapinject_done

SpecSnap == Init /\ [][NextSnap]_vars

\* the bridge operations that control the emulator rather than inject
Control == {"savevm", "loadvm", "delvm", "cont", "stop_delayed"}

\* a snapinject has ended / has run to the end of the handler
SnapEnded == pc = "idle" /\ frame.cmd = "snapinject"
SnapCompleted == SnapEnded /\ "times" \in DOMAIN frame /\ frame.i = frame.times

\* C1 (as the specification states it): whenever a snapinject has ended, every
\* `savevm T` it issued is followed by `loadvm T` and then `delvm T`, also
\* when an injection inside the loop failed.
C1_TemporarySnapshotAlwaysRestored ==
    SnapEnded =>
        \A k \in DOMAIN ops :
            ops[k].op = "savevm" =>
                \E i, j \in DOMAIN ops :
                    /\ k < i /\ i < j
                    /\ ops[i].op = "loadvm" /\ ops[i].arg = ops[k].arg
                    /\ ops[j].op = "delvm" /\ ops[j].arg = ops[k].arg

\* C2: a snapinject without --snapshot-tag that ran to the end with every one
\* of its injections logged issued exactly: savevm T (T fresh); N times (cont,
\* stop_delayed d with min <= d <= max, then the operations of one injection);
\* the observe step (cont, stop_delayed observe-time); loadvm T; delvm T.
C2_SnapinjectOperationOrder ==
    (SnapCompleted /\ frame.args.tag = None /\ Len(logrows) = frame.times) =>
        LET n == frame.times
            T == frame.tmpname.text
            ctl == SelectSeq(ops, LAMBDA o : o.op \in Control)
            last == Len(ops)
        IN /\ Len(ctl) = 2 * n + 5
           /\ ctl[1].op = "savevm" /\ ctl[1].arg = T /\ ops[1] = ctl[1]
           /\ T \notin DOMAIN snaps /\ T # "base"
           /\ \A k \in 1..(n + 1) :
                /\ ctl[2 * k].op = "cont"
                /\ ctl[2 * k + 1].op = "stop_delayed"
           /\ \A k \in 1..n : ctl[2 * k + 1].n \in frame.mint..frame.maxt
           /\ ctl[2 * n + 3].n = frame.obtime
           /\ ctl[2 * n + 4].op = "loadvm" /\ ctl[2 * n + 4].arg = T
           /\ ctl[2 * n + 5].op = "delvm" /\ ctl[2 * n + 5].arg = T
           /\ \A k \in 1..(last - 1) :
                /\ ops[k].op = "cont" => ops[k + 1].op = "stop_delayed"
                /\ (ops[k].op = "stop_delayed" /\ k < last - 2) =>
                        ops[k + 1].op \notin Control
           /\ \A k \in (last - 3)..last : ops[k].op \in Control

C2_Witness ==
    /\ SnapCompleted /\ frame.args.tag = None
    /\ frame.times = MaxTimes /\ Len(logrows) = MaxTimes
    /\ frame.ftype = "ram"

\* C3 (as the specification states it): a snapinject given exactly one of
\* --fault-location and --bit-index issues no bridge operation at all.
C3_LonePairOptionRejected ==
    (frame.cmd = "snapinject"
        /\ (frame.args.location = None) # (frame.args.bit_index = None)) =>
        ops = <<>>

\* C4 (as the specification states it): a snapinject given --snapshot-tag TAG
\* issues `loadvm TAG` first and never a savevm or a delvm.
C4_AnyTagLoadedNeverSaved ==
    (frame.cmd = "snapinject" /\ frame.args.tag # None /\ ops # <<>>) =>
        /\ ops[1].op = "loadvm" /\ ops[1].arg = The(frame.args.tag)
        /\ \A k \in DOMAIN ops : ops[k].op \notin {"savevm", "delvm"}

\* C4 (amended): a snapinject given a non-empty --snapshot-tag TAG issues
\* `loadvm TAG` before any other bridge operation, never a savevm or a delvm,
\* and the user's snapshot still exists, unchanged, throughout.
C4_NonEmptyTagLoadedNeverSaved ==
    (frame.cmd = "snapinject" /\ frame.args.tag # None /\ The(frame.args.tag) # ""
        /\ ops # <<>>) =>
        /\ ops[1].op = "loadvm" /\ ops[1].arg = The(frame.args.tag)
        /\ \A k \in DOMAIN ops : ops[k].op \notin {"savevm", "delvm"}
        /\ DOMAIN snaps = {"base"}
        /\ snaps["base"] = [mem |-> BaseMem, regs |-> InitRegs]

C4_Witness ==
    /\ SnapCompleted /\ frame.args.tag = Some("base")
    /\ Len(logrows) = MaxTimes
    /\ \E k \in DOMAIN ops : ops[k].op = "write_mem"

(***************************************************************************)
(* One autoinject invocation on RAM.                                       *)
(***************************************************************************)
NoUnit == <<"7">>

AutoArgs ==
    [times : {None, Some(0), Some(1), Some(MaxTimes)},
     minlit : {Some(Ns1), Some(Ms1), Some(NoUnit)},
     maxlit : {Some(Ns2), Some(Ms1), Some(Ms2)},
     ftype : {Some("ram")}]

NextAuto ==
    \/ autoinject(1, AutoArgs)
    \/ autoinject_iteration
    \/ autoinject_done

SpecAuto == Init /\ [][NextAuto]_vars

\* the parameters autoinject accepts
ValidCampaign(a) ==
    /\ parse_args_safely(<<a.times, a.minlit, a.maxlit, a.ftype>>)
    /\ The(a.times) >= 1
    /\ parse_time(The(a.minlit)).ok /\ parse_time(The(a.maxlit)).ok
    /\ 0 < parse_time(The(a.minlit)).val
    /\ parse_time(The(a.minlit)).val <= parse_time(The(a.maxlit)).val

\* the operations of iteration k (from 0): one step, then one flip of one byte
RamIteration(k, lo, hi) ==
    LET o == [j \in 1..6 |-> ops[6 * k + j]]
    IN /\ o[1].op = "cont"
       /\ o[2].op = "stop_delayed" /\ o[2].n \in lo..hi /\ o[2].arg = Dec(o[2].n)
       /\ o[3].op = "info mtree -f"
       /\ o[4].op = "read_mem" /\ o[4].n = 1
       /\ o[5].op = "write_mem" /\ o[5].n = 1 /\ o[5].arg = o[4].arg
       /\ o[6].op = "read_mem" /\ o[6].n = 1 /\ o[6].arg = o[4].arg
       /\ \A j \in 1..6 : o[j].paused = (j # 2)

\* C5: an autoinject on RAM with valid parameters has, after i iterations,
\* issued exactly i times (cont, stop_delayed d with min <= d <= max, one flip
\* of one byte) and logged i records, and it ends only after exactly N
\* iterations, returning normally.
C5_AutoinjectIterations ==
    (frame.cmd = "autoinject" /\ ValidCampaign(frame.args)) =>
        /\ "times" \in DOMAIN frame
        /\ frame.times = The(frame.args.times)
        /\ frame.i \in 0..frame.times
        /\ Len(ops) = 6 * frame.i
        /\ Len(logrows) = frame.i
        /\ \A k \in 0..(frame.i - 1) : RamIteration(k, frame.mint, frame.maxt)
        /\ pc = "idle" => frame.i = frame.times /\ outcome = "returned"

\* three flips, each preceded by a step of exactly 1 ms
C5_Witness ==
    /\ pc = "idle" /\ frame.cmd = "autoinject"
    /\ frame.args = [times |-> Some(3), minlit |-> Some(Ms1), maxlit |-> Some(Ms1),
                     ftype |-> Some("ram")]
    /\ Len(logrows) = 3
    /\ Len(SelectSeq(ops, LAMBDA o : o.op = "write_mem")) = 3
    /\ \A k \in DOMAIN ops :
            ops[k].op = "stop_delayed" => ops[k].n = 1000000 /\ ops[k].arg = "1000000"

(***************************************************************************)
(* The whole session.                                                      *)
(***************************************************************************)
\* C6: in every state of a session the guest is paused; every bridge
\* operation other than the stop_delayed of a step was issued while the guest
\* was paused (so every read and write of memory and registers was); and
\* `cont` is always immediately followed by `stop_delayed`, which nothing
\* else issues.
C6_GuestPausedOutsideSteps ==
    /\ paused
    /\ \A k \in DOMAIN ops :
        /\ ops[k].op # "stop_delayed" => ops[k].paused
        /\ ops[k].op = "cont" => k < Len(ops) /\ ops[k + 1].op = "stop_delayed"
        /\ ops[k].op = "stop_delayed" =>
                k > 1 /\ ops[k - 1].op = "cont" /\ ~ops[k].paused

\* a second command has stepped the guest and then written its memory
C6_Witness ==
    /\ ncmd = MaxCmds
    /\ \E j, k \in DOMAIN ops :
        /\ j < k
        /\ ops[j].op = "stop_delayed"
        /\ ops[k].op \in {"write_mem", "write_reg"} /\ ops[k].paused
    /\ logrows # <<>>

(***************************************************************************)
(* inject commands, one after the other.                                   *)
(***************************************************************************)
InjectArgs ==
    [address : {None, Some(""), Some("0x1000"), Some("main+0x3"), Some("0x2000"),
                Some("0x3000"), Some("0x4000")},
     bytewidth : {Some(1), Some(4)},
     bit : {Some(0), Some(7), Some(31)}]

NextInject == inject(MaxCmds, InjectArgs)

SpecInject == Init /\ [][NextInject]_vars

\* the calls of inject_bitflip on record
BitflipCalls == {k \in DOMAIN calls : calls[k].fn = "inject_bitflip"}

\* the call's bit lies in its word, and the word is writable memory
OnWritableMemory(c) ==
    /\ c.width >= 1
    /\ c.bit \in 0..(8 * c.width - 1)
    /\ \A a \in c.at..(c.at + c.width - 1) : a \in DOMAIN c.before /\ MemKind(a) = "ram"

\* the call got as far as its write
ReachedWrite(c) ==
    /\ c.width >= 1
    /\ c.bit \in 0..(8 * c.width - 1)
    /\ \A a \in c.at..(c.at + c.width - 1) : a \in DOMAIN c.before

\* memory m with the bit `bit` of the little-endian word at `at` inverted
Flipped(m, at, bit) ==
    LET a == at + (bit \div 8)
        p == 2 ^ (bit % 8)
    IN [m EXCEPT ![a] = IF (@ \div p) % 2 = 1 THEN @ - p ELSE @ + p]

\* the w bytes of m at `at`, as the Python int they spell
WordAt(m, at, w) == IntFromBytes([i \in 1..w |-> m[at + i - 1]])

\* C7: a call inject_bitflip(address, w, bit) with 0 <= bit < 8*w on writable
\* memory returns normally, leaves memory equal to the old memory with that
\* one bit of the little-endian word inverted (every byte outside the word
\* unchanged), and emits exactly the record (hex(address), hex(old), hex(new)).
C7_BitflipEffect ==
    \A k \in BitflipCalls :
        LET c == calls[k] IN
        OnWritableMemory(c) =>
            /\ c.exc = ""
            /\ c.after = Flipped(c.before, c.at, c.bit)
            /\ c.rows = << <<hex(FromInt(c.at)), hex(WordAt(c.before, c.at, c.width)),
                             hex(WordAt(c.after, c.at, c.width))>> >>

\* 0xDEADBEEF at 0x1000, width 4, bit 0
C7_Witness ==
    \E k \in BitflipCalls :
        /\ calls[k].at = 4096 /\ calls[k].width = 4 /\ calls[k].bit = 0
        /\ [i \in 1..4 |-> calls[k].before[4095 + i]] = <<239, 190, 173, 222>>
        /\ [i \in 1..4 |-> calls[k].after[4095 + i]] = <<238, 190, 173, 222>>
        /\ calls[k].rows = << <<"0x1000", "0xdeadbeef", "0xdeadbeee">> >>
        /\ logrows = calls[k].rows

\* C8: two consecutive calls inject_bitflip(a, w, b) with the same arguments,
\* 0 <= b < 8*w, on writable memory both return normally, each emits one
\* record, and the second leaves memory as it was before the first.
C8_DoubleFlipRestores ==
    \A k \in BitflipCalls :
        (k > 1 /\ (k - 1) \in BitflipCalls) =>
            LET c1 == calls[k - 1]
                c2 == calls[k]
            IN (/\ c1.at = c2.at /\ c1.width = c2.width /\ c1.bit = c2.bit
                /\ c2.before = c1.after
                /\ OnWritableMemory(c1)) =>
                    /\ c1.exc = "" /\ c2.exc = ""
                    /\ Len(c1.rows) = 1 /\ Len(c2.rows) = 1
                    /\ c1.after # c1.before
                    /\ c2.after = c1.before

C8_Witness ==
    /\ Len(calls) >= 2
    /\ calls[Len(calls)].fn = "inject_bitflip" /\ calls[Len(calls) - 1].fn = "inject_bitflip"
    /\ calls[Len(calls)].at = calls[Len(calls) - 1].at
    /\ calls[Len(calls)].width = 4 /\ calls[Len(calls) - 1].width = 4
    /\ calls[Len(calls)].bit = 31 /\ calls[Len(calls) - 1].bit = 31
    /\ calls[Len(calls)].exc = ""
    /\ mem = InitMem /\ calls[Len(calls)].before # InitMem

\* C9: a call of inject_bitflip that got as far as its write and then read
\* back something other than the intended new value ends with the assertion
\* error and emits no record; a call that emitted a record emitted one,
\* returned normally, and left the word at its new value, which differs from
\* the old.
C9_ReadBackMismatchFails ==
    \A k \in BitflipCalls :
        LET c == calls[k] IN
        /\ (ReachedWrite(c) /\ c.after # Flipped(c.before, c.at, c.bit)) =>
                c.exc = "AssertionError" /\ c.rows = <<>>
        /\ c.rows # <<>> =>
                /\ Len(c.rows) = 1 /\ c.exc = ""
                /\ ReachedWrite(c)
                /\ c.after = Flipped(c.before, c.at, c.bit) /\ c.after # c.before

\* a write the ROM ignored, and a write a device register altered
C9_Witness ==
    /\ Len(calls) = 2
    /\ calls[1].at = 8192 /\ calls[1].after = calls[1].before
    /\ calls[1].exc = "AssertionError" /\ calls[1].rows = <<>>
    /\ calls[2].at = 12288 /\ calls[2].after # calls[2].before
    /\ calls[2].exc = "AssertionError" /\ calls[2].rows = <<>>
    /\ logrows = <<>>

(***************************************************************************)
(* inject_reg commands, one after the other.                               *)
(***************************************************************************)
RegArgs ==
    [register : {None, Some(<<"x", "0">>), Some(RegX1), Some(<<"x", "*">>),
                 Some(<<"v", "0">>), Some(<<"c", "p", "s", "r">>)},
     bit : {Some(0), Some(1), Some(63)}]

NextReg ==
    \/ inject_reg(MaxCmds, RegArgs)
    \/ try_register

SpecReg == Init /\ [][NextReg]_vars

\* the calls of inject_register_bitflip on record that got as far as the
\* comparison of the read-back
ComparedCalls ==
    {k \in DOMAIN calls :
        /\ calls[k].fn = "inject_register_bitflip"
        /\ IsRegister(calls[k].target)
        /\ RegNamed(calls[k].target).sizeof >= 8
        /\ calls[k].bit \in 0..63}

\* the 64 bits of a register value from bit `at` up, as a set of bit numbers
Low64(value, at) == {b - at : b \in {c \in value : c \in at..(at + 63)}}

\* C10: inject_register_bitflip compares 64-bit patterns.  When the 64 bits
\* read back are the old ones with the chosen bit inverted it logs exactly
\* one record and returns True; when they are the old ones it logs nothing,
\* returns False and the register holds its old value.
C10_RegisterFlipOutcome ==
    \A k \in ComparedCalls :
        LET c == calls[k]
            old == Low64(c.rbefore[c.target], c.at)
            back == Low64(c.rafter[c.target], c.at)
            new == IF c.bit \in old THEN old \ {c.bit} ELSE old \cup {c.bit}
        IN /\ back = new =>
                /\ c.ret = "True" /\ c.exc = ""
                /\ Len(c.rows) = 1 /\ c.rows[1][1] = c.target
           /\ back = old =>
                /\ c.ret = "False" /\ c.exc = ""
                /\ c.rows = <<>>
                /\ c.rafter[c.target] = c.rbefore[c.target]
           /\ c.ret = "True" => back = new
           /\ c.ret = "False" => back = old

\* bit 63 of x0 flipped (the new value and the read-back differ as Python
\* ints and agree once masked), and then a write the read-only x1 ignored
C10_Witness ==
    /\ Len(calls) = 2
    /\ calls[1].target = "x0" /\ calls[1].bit = 63 /\ calls[1].ret = "True"
    /\ calls[1].rows = << <<"x0", "0x5", "-0x7ffffffffffffffb">> >>
    /\ calls[2].target = "x1" /\ calls[2].ret = "False" /\ calls[2].rows = <<>>
    /\ regs["x1"] = InitRegs["x1"]
    /\ 63 \in regs["x0"]

(***************************************************************************)
(* One inject_reg command, with every kind of pattern.                     *)
(***************************************************************************)
PatternArgs ==
    [register : {None, Some(<<>>), Some(<<"x", "0">>), Some(RegX1), Some(<<"x", "*">>),
                 Some(<<"*", "0">>), Some(<<"*">>), Some(<<"x", "*", "0">>),
                 Some(<<"v", "0">>), Some(<<"c", "p", "s", "r">>), Some(<<"0">>)},
     bit : {None, Some(0), Some(1), Some(63), Some(64)}]

NextPattern ==
    \/ inject_reg(1, PatternArgs)
    \/ try_register

SpecPattern == Init /\ [][NextPattern]_vars

\* the 64 bits a recorded register call worked on: before, intended, after
OldBits(c) == Low64(c.rbefore[c.target], c.at)
BackBits(c) == Low64(c.rafter[c.target], c.at)
NewBits(c) == IF c.bit \in OldBits(c) THEN OldBits(c) \ {c.bit} ELSE OldBits(c) \cup {c.bit}

\* C11 (as the specification states it): a register flip whose read-back
\* equals neither the new nor the old value ends with an error, and no
\* further register is tried by the command that made it.
C11_DoubleMismatchIsHardFailure ==
    \A k \in ComparedCalls :
        LET c == calls[k] IN
        (BackBits(c) # NewBits(c) /\ BackBits(c) # OldBits(c)) =>
            /\ c.exc # ""
            /\ c.ret \notin {"True", "False", "None"}
            /\ ~(k = Len(calls) /\ pc = "try_register")

\* C12 (as the specification states it): whenever a register flip returns
\* True it has logged one record (name, old, new) whose old and new values
\* differ in exactly one bit of the 64 bits the flip worked on.
C12_SuccessMeansOneBitDiffers ==
    \A k \in DOMAIN calls :
        LET c == calls[k] IN
        (c.fn = "inject_register_bitflip" /\ c.ret = "True") =>
            /\ c.rows = << <<c.target, hex(SignedAt(c.rbefore[c.target], c.at)),
                             hex(SignedAt(c.rafter[c.target], c.at))>> >>
            /\ Cardinality((OldBits(c) \ BackBits(c)) \cup (BackBits(c) \ OldBits(c))) = 1

\* the registers the running inject_reg has tried so far, in order (every try
\* of an inventory register with a non-negative bit issues one write)
Tried ==
    LET writes == SelectSeq(ops, LAMBDA o : o.op = "write_reg")
    IN [i \in DOMAIN writes |-> writes[i].arg]

\* the inventory names the pattern of the running inject_reg matches
Matching ==
    LET m == matching_registers(frame.args.register)
    IN {m[i] : i \in DOMAIN m}

\* C13: inject_reg tries matching registers only, each at most once, in any
\* order; the first success ends it (the record is of the last register
\* tried, and nothing is read or written after that flip's read-back); when
\* every matching register has failed it prints 'Out of registers to try!'
\* after exactly as many tries as there are matching registers.
C13_TriesUntilFirstSuccess ==
    (frame.cmd = "inject_reg" /\ parse_args_safely(<<frame.args.register, frame.args.bit>>)) =>
        LET n == Len(Tried)
            exhausted == \E i \in DOMAIN out : out[i] = "Out of registers to try!"
        IN /\ \A i \in 1..n : Tried[i] \in Matching
           /\ \A i, j \in 1..n : i # j => Tried[i] # Tried[j]
           /\ Len(logrows) <= 1
           /\ pc = "try_register" =>
                /\ logrows = <<>> /\ ~exhausted
                /\ frame.pending = Matching \ {Tried[i] : i \in 1..n}
                /\ frame.pending # {}
           /\ logrows # <<>> =>
                /\ pc = "idle" /\ ~exhausted
                /\ logrows[1][1] = Tried[n]
                /\ ops[Len(ops)].op = "read_reg" /\ ops[Len(ops)].arg = Tried[n]
                /\ ops[Len(ops) - 1].op = "write_reg"
           /\ (pc = "idle" /\ Matching # {} /\ logrows = <<>>) =>
                /\ exhausted /\ out[Len(out)] = "Out of registers to try!"
                /\ n = Cardinality(Matching)
           /\ exhausted => pc = "idle" /\ logrows = <<>> /\ outcome = "returned"

\* all three registers the pattern matches tried, in an order other than the
\* inventory's, and none took the flip
C13_Witness ==
    /\ pc = "idle" /\ frame.cmd = "inject_reg"
    /\ frame.args.register = Some(<<"x", "*">>)
    /\ Tried = <<"x2", "x0", "x1">>
    /\ out[Len(out)] = "Out of registers to try!"
    /\ logrows = <<>>

\* the literal pieces of a pattern, cut at each `*`
RECURSIVE Segments(_)
Segments(pattern) ==
    IF \A i \in DOMAIN pattern : pattern[i] # "*" THEN <<pattern>>
    ELSE LET star == CHOOSE i \in DOMAIN pattern :
                        pattern[i] = "*" /\ \A j \in 1..(i - 1) : pattern[j] # "*"
         IN <<SubSeq(pattern, 1, star - 1)>>
                \o Segments(SubSeq(pattern, star + 1, Len(pattern)))

\* the whole name is the pieces in order, with any run of characters
\* (possibly none) between two consecutive pieces
WholeNameMatches(pattern, name) ==
    LET segs == Segments(pattern)
        k == Len(segs)
    IN \E at \in [1..k -> 1..(Len(name) + 1)] :
        /\ at[1] = 1
        /\ at[k] + Len(segs[k]) = Len(name) + 1
        /\ \A i \in 1..k : SubSeq(name, at[i], at[i] + Len(segs[i]) - 1) = segs[i]
        /\ \A i \in 1..(k - 1) : at[i] + Len(segs[i]) <= at[i + 1]

\* the inventory registers whose whole name the pattern matches
InventoryMatches(pattern) ==
    {list_registers[i] : i \in {j \in DOMAIN list_registers :
                                    WholeNameMatches(pattern, NameChars(list_registers[j]))}}

\* what C14 requires of an inject_reg whose pattern is `pattern`
OnlyMatchingTouched(pattern) ==
    /\ \A k \in DOMAIN ops :
            ops[k].op \in {"read_reg", "write_reg"} => ops[k].arg \in InventoryMatches(pattern)
    /\ \A r \in DOMAIN regs : r \notin InventoryMatches(pattern) => regs[r] = InitRegs[r]
    /\ (pc = "try_register" => frame.pending \subseteq InventoryMatches(pattern))
    /\ InventoryMatches(pattern) = {} =>
            /\ pc = "idle" /\ outcome = "returned"
            /\ out = <<"No registers found!">>
            /\ ops = <<>> /\ logrows = <<>> /\ regs = InitRegs
    /\ (InventoryMatches(pattern) # {} /\ pc = "idle") => ops # <<>>

RECURSIVE Digits(_)
\* str(n) as characters
Digits(n) ==
    IF n < 0 THEN <<"-">> \o Digits(-n)
    ELSE IF n < 10 THEN <<DecChars[n + 1]>>
    ELSE Digits(n \div 10) \o <<DecChars[(n % 10) + 1]>>

TimeNumbers == {-5, 0, 1, 2, 5, 7, 10, 50, 100, 244, 500, 5000, 5000000}

InitTime ==
    /\ mem = InitMem /\ regs = InitRegs /\ paused = TRUE
    /\ snaps = ("base" :> [mem |-> BaseMem, regs |-> InitRegs])
    /\ ops = <<>> /\ logrows = <<>> /\ out = <<>> /\ calls = <<>>
    /\ outcome = "" /\ nuuid = 0 /\ ncmd = 0
    /\ pc = "parse_time"
    /\ frame \in {[cmd |-> "parse_time", n |-> n, unit |-> TimeUnits[k],
                   s |-> Digits(n) \o TimeUnits[k],
                   result |-> [ok |-> FALSE, text |-> "", val |-> 0]] :
                    n \in TimeNumbers, k \in DOMAIN TimeUnits}

\* one call parse_time(s)
parse_time_call ==
    /\ pc = "parse_time"
    /\ pc' = "idle"
    /\ frame' = [frame EXCEPT !.result = parse_time(frame.s)]
    /\ outcome' = IF parse_time(frame.s).ok THEN "returned" ELSE "ValueError"
    /\ UNCHANGED <<mem, regs, paused, snaps, ops, logrows, out, calls, nuuid, ncmd>>

NextTime == parse_time_call

SpecTime == InitTime /\ [][NextTime]_vars

\* n times the multiplier of a suffix, in decimal
TimesSuffix(n, unit) ==
    CASE unit = <<"m">> -> Dec(60 * n) \o "000000000"
      [] unit = <<"s">> -> Dec(n) \o "000000000"
      [] unit = <<"m", "s">> -> Dec(n) \o "000000"
      [] unit = <<"u", "s">> -> Dec(n) \o "000"
      [] OTHER -> Dec(n)

ParsedTime == pc = "idle" /\ frame.cmd = "parse_time"

\* C15: for a decimal integer n followed by m, s, ms, us or ns, parse_time
\* returns n times that suffix's multiplier when n > 0 and raises an error
\* when n <= 0.
C15_SuffixedLiteral ==
    (ParsedTime /\ frame.unit # <<>>) =>
        /\ frame.n > 0 =>
            /\ frame.result.ok /\ outcome = "returned"
            /\ frame.result.text = TimesSuffix(frame.n, frame.unit)
            /\ frame.result.val # -1 => Dec(frame.result.val) = frame.result.text
        /\ frame.n <= 0 => ~frame.result.ok /\ outcome = "ValueError"

\* 5ms = 5000us = 5000000ns = 5 * 10^6, and one minute
C15_Witness ==
    /\ ParsedTime /\ frame.s = <<"5", "m", "s">>
    /\ frame.result = [ok |-> TRUE, text |-> "5000000", val |-> 5000000]
    /\ parse_time(<<"5", "0", "0", "0", "u", "s">>) = frame.result
    /\ parse_time(<<"5", "0", "0", "0", "0", "0", "0", "n", "s">>) = frame.result
    /\ parse_time(<<"1", "m">>).text = "60000000000"
    /\ parse_time(<<"2", "s">>).text = "2000000000"
    /\ ~parse_time(<<"0", "m", "s">>).ok

\* C16 (as the specification states it): a positive decimal integer n with no
\* unit suffix parses to n nanoseconds.
C16_UnitlessLiteral ==
    (ParsedTime /\ frame.unit = <<>> /\ frame.n > 0) =>
        /\ frame.result.ok /\ outcome = "returned"
        /\ frame.result.text = Dec(frame.n)

(***************************************************************************)
(* The memory tree: the answer to "info mtree -f" and its parser.  A text  *)
(* is the sequence of its lines (output.split("\n")), a line a sequence of *)
(* characters; line i of the code is line i + 1 here.                      *)
(***************************************************************************)
\* what str.strip, str.rstrip and \s take as white space
Ws == {" ", "\t", "\r"}
HexClass == {HexChars[i] : i \in DOMAIN HexChars} \cup {"A", "B", "C", "D", "E", "F"}
DecClass == {DecChars[i] : i \in DOMAIN DecChars}

\* str.rstrip() and str.strip()
rstrip(s) ==
    LET keep == {i \in DOMAIN s : s[i] \notin Ws}
    IN IF keep = {} THEN <<>> ELSE SubSeq(s, 1, SetMax(keep))

strip(s) ==
    LET keep == {i \in DOMAIN s : s[i] \notin Ws}
    IN IF keep = {} THEN <<>> ELSE SubSeq(s, SetMin(keep), SetMax(keep))

\* str.startswith
startswith(s, prefix) ==
    Len(prefix) <= Len(s) /\ SubSeq(s, 1, Len(prefix)) = prefix

\* a dict: a function from its keys; d[k] = v, del d[k], d.update(e)
Put(d, k, v) == [n \in DOMAIN d \cup {k} |-> IF n = k THEN v ELSE d[n]]
Del(d, k) == [n \in DOMAIN d \ {k} |-> d[n]]
Update(d, e) == [n \in DOMAIN d \cup DOMAIN e |-> IF n \in DOMAIN e THEN e[n] ELSE d[n]]

\* the character classes of the pattern: \s, [0-9a-fA-F], \d, [^)] and \S
InClass(ch, class) ==
    CASE class = "s" -> ch \in Ws
      [] class = "x" -> ch \in HexClass
      [] class = "d" -> ch \in DecClass
      [] class = "^)" -> ch # ")"
      [] OTHER -> ch \notin Ws

\* where the longest run of characters of a class that starts at i ends
Run(s, i, class) ==
    CHOOSE j \in i..(Len(s) + 1) :
        /\ \A k \in i..(j - 1) : InClass(s[k], class)
        /\ j = Len(s) + 1 \/ ~InClass(s[j], class)

\* ^\s*([0-9a-fA-F]+)-([0-9a-fA-F]+)\s+\(prio\s+(\d+),\s+([^)]+)\):\s+(\S+), the
\* pattern of MemoryRange.parse and of _is_memory_range_line, piece by piece:
\* a literal, or a run of at least `min` characters of a class.  The pieces
\* \s+ and [^)]+ are one run of [^)] that starts with a white space.
RangePattern ==
    <<[lit |-> <<>>, class |-> "s", min |-> 0, first |-> ""],
      [lit |-> <<>>, class |-> "x", min |-> 1, first |-> ""],
      [lit |-> <<"-">>, class |-> "", min |-> 0, first |-> ""],
      [lit |-> <<>>, class |-> "x", min |-> 1, first |-> ""],
      [lit |-> <<>>, class |-> "s", min |-> 1, first |-> ""],
      [lit |-> <<"(", "p", "r", "i", "o">>, class |-> "", min |-> 0, first |-> ""],
      [lit |-> <<>>, class |-> "s", min |-> 1, first |-> ""],
      [lit |-> <<>>, class |-> "d", min |-> 1, first |-> ""],
      [lit |-> <<",">>, class |-> "", min |-> 0, first |-> ""],
      [lit |-> <<>>, class |-> "^)", min |-> 2, first |-> "s"],
      [lit |-> <<")", ":">>, class |-> "", min |-> 0, first |-> ""],
      [lit |-> <<>>, class |-> "s", min |-> 1, first |-> ""],
      [lit |-> <<>>, class |-> "S", min |-> 1, first |-> ""]>>

RECURSIVE RangeMatch(_, _, _)
\* re.match of the pattern from piece k on at position i, `ends` being where
\* the pieces before it end: the end of every piece, or None for no match
RangeMatch(s, k, ends) ==
    IF k > Len(RangePattern) THEN Some(ends)
    ELSE LET piece == RangePattern[k]
             i == IF k = 1 THEN 1 ELSE ends[k - 1]
             j == IF piece.class = "" THEN i + Len(piece.lit) ELSE Run(s, i, piece.class)
             fits == IF piece.class = ""
                     THEN j <= Len(s) + 1 /\ SubSeq(s, i, j - 1) = piece.lit
                     ELSE /\ j - i >= piece.min
                          /\ piece.first = "" \/ InClass(s[i], piece.first)
         IN IF fits THEN RangeMatch(s, k + 1, Append(ends, j)) ELSE None

\* the text of group g of a match, g being the number of its piece
Group(s, ends, g) == SubSeq(s, ends[g - 1], ends[g] - 1)

\* an upper-case hexadecimal digit as int(text, 16) reads it
Lower(ch) ==
    CASE ch = "A" -> "a" [] ch = "B" -> "b" [] ch = "C" -> "c"
      [] ch = "D" -> "d" [] ch = "E" -> "e" [] ch = "F" -> "f" [] OTHER -> ch

\* int(text, 16) of a group
Hex16(cs) == ParseInt([i \in DOMAIN cs |-> Lower(cs[i])], 16).val

\* the MemoryRange of the groups of a match (its int() calls cannot fail: the
\* pattern lets only digits of the base into these groups)
MemoryRange(s, ends) ==
    [start |-> Hex16(Group(s, ends, 2)), end |-> Hex16(Group(s, ends, 4)),
     priority |-> ParseInt(Group(s, ends, 8), 10).val,
     kind |-> Join(strip(Group(s, ends, 10))), name |-> Join(Group(s, ends, 13))]

RangeOf(s, match) == IF match = None THEN None ELSE Some(MemoryRange(s, The(match)))

\* MemoryRange.parse(line): the range, or None for ValueError
MemoryRange_parse(line) == RangeOf(strip(line), RangeMatch(strip(line), 1, <<>>))

\* FlatView.parse, one line: its range appended, or a warning for it
FlatView_line(fv, r) ==
    IF r = None
    THEN [fv EXCEPT !.warned = Append(@, "Warning: Skipping invalid memory range line")]
    ELSE [fv EXCEPT !.ranges = Append(@, The(r))]

RECURSIVE FlatView_parse(_, _)
\* FlatView.parse(lines), from the FlatView fv on: the ranges of the lines that
\* parse, and one warning for each line that does not
FlatView_parse(fv, lines) ==
    IF lines = <<>> THEN fv
    ELSE FlatView_parse(FlatView_line(fv, MemoryRange_parse(Head(lines))), Tail(lines))

FlatView == [ranges |-> <<>>, warned |-> <<>>]

\* _is_memory_range_line(line)
is_memory_range_line(line) == RangeMatch(line, 1, <<>>) # None

\* _extract_address_space_name(line): the name, or None for ValueError
extract_address_space_name(line) ==
    LET quotes == {i \in DOMAIN line : line[i] = "\""}
    IN IF Cardinality(quotes) # 2 THEN None
       ELSE Some(SubSeq(line, SetMin(quotes) + 1, SetMax(quotes) - 1))

FlatViewPrefix == <<"F", "l", "a", "t", "V", "i", "e", "w", " ", "#">>
ASPrefix == <<" ", "A", "S", " ", "\"">>
RootPrefix == <<" ", "R", "o", "o", "t", " ">>
NoRenderedPrefix ==
    <<" ", " ", "N", "o", " ", "r", "e", "n", "d", "e", "r", "e", "d", " ",
      "F", "l", "a", "t", "V", "i", "e", "w">>

RECURSIVE header_lines(_, _, _, _)
\* the first loop of _parse_flatview_section, over the AS lines: it ends at
\* the line after the Root line ("body"), at the next FlatView line
\* ("return") or with the ValueError of a malformed AS line
header_lines(lines, i, address_spaces, views) ==
    IF i > Len(lines)
    THEN [at |-> "body", i |-> i, address_spaces |-> address_spaces, views |-> views]
    ELSE IF startswith(rstrip(lines[i]), ASPrefix)
    THEN IF extract_address_space_name(rstrip(lines[i])) = None
         THEN [at |-> "ValueError", i |-> i, address_spaces |-> address_spaces, views |-> views]
         ELSE header_lines(lines, i + 1,
                  Append(address_spaces, The(extract_address_space_name(rstrip(lines[i])))),
                  Put(views, The(extract_address_space_name(rstrip(lines[i]))), <<>>))
    ELSE IF startswith(rstrip(lines[i]), RootPrefix)
    THEN [at |-> "body", i |-> i + 1, address_spaces |-> address_spaces, views |-> views]
    ELSE IF startswith(rstrip(lines[i]), FlatViewPrefix)
    THEN [at |-> "return", i |-> i, address_spaces |-> address_spaces, views |-> views]
    ELSE header_lines(lines, i + 1, address_spaces, views)

RECURSIVE delete_all(_, _)
\* for as_name in address_spaces: del views[as_name]; None for KeyError
delete_all(address_spaces, views) ==
    IF address_spaces = <<>> THEN Some(views)
    ELSE IF Head(address_spaces) \notin DOMAIN views THEN None
    ELSE delete_all(Tail(address_spaces), Del(views, Head(address_spaces)))

RECURSIVE append_all(_, _, _)
\* for as_name in address_spaces: views[as_name].append(line)
append_all(address_spaces, views, line) ==
    IF address_spaces = <<>> THEN views
    ELSE append_all(Tail(address_spaces),
                    [views EXCEPT ![Head(address_spaces)] = Append(@, line)], line)

RECURSIVE range_lines(_, _, _, _, _)
\* the second loop of _parse_flatview_section, over the range lines
range_lines(lines, i, address_spaces, views, warned) ==
    IF i > Len(lines) THEN [exc |-> None, i |-> i, views |-> views, warned |-> warned]
    ELSE IF startswith(rstrip(lines[i]), <<" ", " ">>) /\ is_memory_range_line(rstrip(lines[i]))
    THEN range_lines(lines, i + 1, address_spaces,
                     append_all(address_spaces, views, rstrip(lines[i])), warned)
    ELSE IF startswith(rstrip(lines[i]), FlatViewPrefix) \/ rstrip(lines[i]) = <<>>
    THEN [exc |-> None, i |-> i, views |-> views, warned |-> warned]
    ELSE range_lines(lines, i + 1, address_spaces, views,
                     Append(warned, "Warning: Unexpected line in memory ranges"))

\* the empty FlatView: its address spaces leave the views
no_rendered(i, deleted) ==
    IF deleted = None
    THEN [exc |-> Some("KeyError"), i |-> i, views |-> <<>>, warned |-> <<>>]
    ELSE [exc |-> None, i |-> i + 1, views |-> The(deleted), warned |-> <<>>]

\* _parse_flatview_section after its first loop, which ended as h says
section_body(lines, h) ==
    IF h.at = "ValueError"
    THEN [exc |-> Some("ValueError"), i |-> h.i, views |-> <<>>, warned |-> <<>>]
    ELSE IF h.at = "return" \/ h.i > Len(lines)
    THEN [exc |-> None, i |-> h.i, views |-> h.views, warned |-> <<>>]
    ELSE IF startswith(rstrip(lines[h.i]), NoRenderedPrefix)
    THEN no_rendered(h.i, delete_all(h.address_spaces, h.views))
    ELSE range_lines(lines, h.i, h.address_spaces, h.views, <<>>)

\* a variant whose first loop starts at the FlatView line itself
parse_flatview_section_from_header(lines, start_index) ==
    section_body(lines, header_lines(lines, start_index, <<>>, <<>>))

\* _parse_flatview_section(lines, start_index): the next index and the range
\* lines of each address space of the section, or the exception it raises
parse_flatview_section(lines, start_index) ==
    section_body(lines, header_lines(lines, start_index + 1, <<>>, <<>>))

RECURSIVE mtree_lines(_, _, _, _)
\* _parse_mtree_output after the section that starts at line i
RECURSIVE after_section(_, _, _, _)
after_section(lines, views, warned, section) ==
    IF section.exc # None THEN [exc |-> section.exc, views |-> <<>>, warned |-> warned]
    ELSE mtree_lines(lines, section.i, Update(views, section.views), warned \o section.warned)

\* the loop of _parse_mtree_output over the lines
mtree_lines(lines, i, views, warned) ==
    IF i > Len(lines) THEN [exc |-> None, views |-> views, warned |-> warned]
    ELSE IF startswith(rstrip(lines[i]), FlatViewPrefix)
    THEN after_section(lines, views, warned, parse_flatview_section(lines, i))
    ELSE mtree_lines(lines, i + 1, views,
                     IF rstrip(lines[i]) # <<>>
                     THEN Append(warned, "Warning: Unexpected line in mtree output")
                     ELSE warned)

RECURSIVE FlatViews(_, _, _)
\* {name: FlatView.parse(body) for name, body in views.items()}, with the
\* warnings FlatView.parse gives
FlatViews(parsed, names, done) ==
    IF parsed.exc # None \/ names = {} THEN done
    ELSE FlatViews(parsed, names \ {CHOOSE n \in names : TRUE},
                   [done EXCEPT
                      !.views = Put(@, CHOOSE n \in names : TRUE,
                                    FlatView_parse(FlatView, parsed.views[CHOOSE n \in names : TRUE]).ranges),
                      !.warned = @ \o FlatView_parse(FlatView, parsed.views[CHOOSE n \in names : TRUE]).warned])

\* the views collected from the lines, each parsed into a FlatView
with_flatviews(parsed) == FlatViews(parsed, DOMAIN parsed.views, parsed)

\* _parse_mtree_output(output): the map from address-space name to the ranges
\* of its FlatView, or the exception that ends the parse
parse_mtree_output(lines) == with_flatviews(mtree_lines(lines, 1, <<>>, <<>>))

(***************************************************************************)
(* _parse_mtree_output applied to one text.                                *)
(***************************************************************************)
\* the most FlatView sections of a text
MaxViews == 2

\* the lines the monitor prints
FlatViewLine == FlatViewPrefix \o <<"0">>
ASLine(name) == ASPrefix \o name \o <<"\"", ",", " ", "r", "o", "o", "t", ":", " ", "s">>
\* an AS line cut short after the name: it holds one double quote
CutASLine(name) == ASPrefix \o name
RootLine == RootPrefix \o <<"m", "e", "m", "o", "r", "y", " ", "r", "e", "g", "i", "o", "n", ":", " ", "s">>
NoRenderedLine == NoRenderedPrefix

\* the lines of a section's body: the marker, a blank line, two range lines
\*   0-f (prio 0, ram): r        10-1f (prio 1, i/o): io
\* and a range line cut short after "(prio"
BodyLine(tag) ==
    CASE tag = "marker" -> NoRenderedLine
      [] tag = "x" -> <<" ", " ", "0", "-", "f", " ", "(", "p", "r", "i", "o", " ", "0", ",",
                        " ", "r", "a", "m", ")", ":", " ", "r">>
      [] tag = "y" -> <<" ", " ", "1", "0", "-", "1", "f", " ", "(", "p", "r", "i", "o", " ",
                        "1", ",", " ", "i", "/", "o", ")", ":", " ", "i", "o">>
      [] tag = "cut" -> <<" ", " ", "2", "0", "-", "2", "f", " ", "(", "p", "r", "i", "o">>
      [] OTHER -> <<>>

\* the AS lines of a section: each name with whether its line is cut short
Declarations ==
    {<<[name |-> <<"a">>, cut |-> FALSE]>>,
     <<[name |-> <<"b">>, cut |-> FALSE]>>,
     <<[name |-> <<"a">>, cut |-> FALSE], [name |-> <<"b">>, cut |-> FALSE]>>,
     <<[name |-> <<"a">>, cut |-> FALSE], [name |-> <<"a">>, cut |-> FALSE]>>,
     <<[name |-> <<"c">>, cut |-> TRUE]>>}

Bodies == {<<"marker", "blank">>, <<"blank">>, <<>>, <<"x", "cut", "y", "blank">>}

\* the sections of the texts: a header, AS lines, the Root line and a body,
\* and one section that ends before its Root line
Sections ==
    [names : Declarations, root : {TRUE}, body : Bodies]
        \cup {[names |-> <<[name |-> <<"b">>, cut |-> FALSE]>>, root |-> FALSE, body |-> <<>>]}

SectionLines(fv) ==
    <<FlatViewLine>>
        \o [i \in DOMAIN fv.names |->
                IF fv.names[i].cut THEN CutASLine(fv.names[i].name)
                ELSE ASLine(fv.names[i].name)]
        \o (IF fv.root THEN <<RootLine>> ELSE <<>>)
        \o [i \in DOMAIN fv.body |-> BodyLine(fv.body[i])]

RECURSIVE TextLines(_)
TextLines(fvs) ==
    IF fvs = <<>> THEN <<>> ELSE SectionLines(Head(fvs)) \o TextLines(Tail(fvs))

InitMtree ==
    /\ mem = InitMem /\ regs = InitRegs /\ paused = TRUE
    /\ snaps = ("base" :> [mem |-> BaseMem, regs |-> InitRegs])
    /\ ops = <<>> /\ logrows = <<>> /\ out = <<>> /\ calls = <<>>
    /\ outcome = "" /\ nuuid = 0 /\ ncmd = 0
    /\ pc = "_parse_mtree_output"
    /\ \E n \in 1..MaxViews : \E fvs \in [1..n -> Sections] :
            frame = [cmd |-> "_parse_mtree_output", flatviews |-> fvs,
                     lines |-> TextLines(fvs),
                     result |-> [exc |-> None, views |-> <<>>, warned |-> <<>>]]

\* _parse_mtree_output returns or raises
mtree_returns(result) ==
    /\ frame' = [frame EXCEPT !.result = result]
    /\ outcome' = IF result.exc = None THEN "returned" ELSE The(result.exc)
    /\ out' = out \o result.warned

\* one call _parse_mtree_output(output)
parse_mtree_output_call ==
    /\ pc = "_parse_mtree_output"
    /\ pc' = "idle"
    /\ mtree_returns(parse_mtree_output(frame.lines))
    /\ UNCHANGED <<mem, regs, paused, snaps, ops, logrows, calls, nuuid, ncmd>>

NextMtree == parse_mtree_output_call

SpecMtree == InitMtree /\ [][NextMtree]_vars

ParsedMtree == pc = "idle" /\ frame.cmd = "_parse_mtree_output"

\* the map _parse_mtree_output returned
Tree == frame.result.views

\* what a section of the text says: the names it declares, whether an AS line
\* of it is malformed, whether its body is the marker, its range lines
DeclaredIn(fv) == {fv.names[i].name : i \in DOMAIN fv.names}
Malformed(fv) == \E i \in DOMAIN fv.names : fv.names[i].cut
NotRendered(fv) == fv.root /\ fv.body # <<>> /\ fv.body[1] = "marker"
RangesIn(fv) ==
    LET rendered == IF fv.root THEN SelectSeq(fv.body, LAMBDA t : t \in {"x", "y"}) ELSE <<>>
    IN [i \in DOMAIN rendered |->
            IF rendered[i] = "x"
            THEN [start |-> 0, end |-> 15, priority |-> 0, kind |-> "ram", name |-> "r"]
            ELSE [start |-> 16, end |-> 31, priority |-> 1, kind |-> "i/o", name |-> "io"]]
WellFormed == \A k \in DOMAIN frame.flatviews : ~Malformed(frame.flatviews[k])

\* C17 (as the specification states it): the returned map holds no address
\* space declared in a FlatView whose body is `No rendered FlatView`, and it
\* still holds the address spaces of the other FlatViews of the text, those
\* with range lines.
C17_NoRenderedFlatViewAbsent ==
    (ParsedMtree /\ WellFormed
        /\ \E k \in DOMAIN frame.flatviews : NotRendered(frame.flatviews[k])) =>
        /\ outcome = "returned"
        /\ \A k \in DOMAIN frame.flatviews :
            LET fv == frame.flatviews[k]
            IN /\ NotRendered(fv) => DeclaredIn(fv) \cap DOMAIN Tree = {}
               /\ RangesIn(fv) # <<>> => DeclaredIn(fv) \subseteq DOMAIN Tree

\* C18 (as the specification states it): when an AS line of the text is
\* malformed, the address spaces of the well-formed FlatViews that have range
\* lines are still parsed and returned.
C18_MalformedASLineIsLocal ==
    (ParsedMtree /\ ~WellFormed) =>
        /\ outcome = "returned"
        /\ \A k \in DOMAIN frame.flatviews :
            LET fv == frame.flatviews[k]
            IN (~Malformed(fv) /\ RangesIn(fv) # <<>>) =>
                    DeclaredIn(fv) \subseteq DOMAIN Tree

\* C19 (as the specification states it): every address space of the returned
\* map has at least one range.
C19_EveryAddressSpaceHasARange ==
    (ParsedMtree /\ outcome = "returned") =>
        \A name \in DOMAIN Tree : Tree[name] # <<>>

\* C20 (as the specification states it): every name a FlatView declares maps
\* to that FlatView's range lines, parsed, in the order of the text.
C20_NamesShareTheRangeSequence ==
    (ParsedMtree /\ outcome = "returned") =>
        \A k \in DOMAIN frame.flatviews :
            \A name \in DeclaredIn(frame.flatviews[k]) \cap DOMAIN Tree :
                Tree[name] = RangesIn(frame.flatviews[k])

(***************************************************************************)
(* FlatView.random_address applied to one view.                            *)
(***************************************************************************)
\* the most ranges of a view
MaxRanges == 3

\* the ranges of the views, with the inclusive end the monitor prints: three
\* of RAM (one of a single byte), a ROM that overlaps the first and a device
ViewRanges ==
    {[start |-> 0, end |-> 2, kind |-> "ram"],
     [start |-> 4, end |-> 4, kind |-> "ram"],
     [start |-> 8, end |-> 10, kind |-> "ram"],
     [start |-> 2, end |-> 5, kind |-> "romd"],
     [start |-> 20, end |-> 22, kind |-> "i/o"]}

InitAddress ==
    /\ mem = InitMem /\ regs = InitRegs /\ paused = TRUE
    /\ snaps = ("base" :> [mem |-> BaseMem, regs |-> InitRegs])
    /\ ops = <<>> /\ logrows = <<>> /\ out = <<>> /\ calls = <<>>
    /\ outcome = "" /\ nuuid = 0 /\ ncmd = 0
    /\ pc = "random_address"
    /\ \E n \in 1..MaxRanges : \E view \in [1..n -> ViewRanges] :
            frame = [cmd |-> "random_address", view |-> view, offset |-> -1,
                     result |-> -1]

\* random_address() returns the address, or fails in its final assertion
address_returns(offset, address) ==
    /\ frame' = [frame EXCEPT !.offset = offset, !.result = address]
    /\ outcome' = IF address = -1 THEN "AssertionError" ELSE "returned"

\* one call view.random_address(): random.randint raises ValueError for an
\* empty interval, and draws any offset of the interval otherwise
random_address_call ==
    /\ pc = "random_address"
    /\ pc' = "idle"
    /\ IF SumLens(ram_ranges(frame.view)) - 1 < 0
       THEN outcome' = "ValueError" /\ UNCHANGED frame
       ELSE \E offset \in 0..(SumLens(ram_ranges(frame.view)) - 1) :
                address_returns(offset, random_address(frame.view, offset))
    /\ UNCHANGED <<mem, regs, paused, snaps, ops, logrows, out, calls, nuuid, ncmd>>

NextAddress == random_address_call

SpecAddress == InitAddress /\ [][NextAddress]_vars

\* the RAM ranges of the view of the call, as the monitor reports them
RamOf(view) == {view[i] : i \in {j \in DOMAIN view : view[j].kind = "ram"}}
Sampled == pc = "idle" /\ frame.cmd = "random_address"

\* C21: for a view with a RAM range of more than one byte, random_address
\* returns, and what it returns lies in a RAM range of the view (start <=
\* address <= end).
C21_AddressInsideRam ==
    (Sampled /\ \E r \in RamOf(frame.view) : r.end > r.start) =>
        /\ outcome = "returned"
        /\ \E r \in RamOf(frame.view) : r.start <= frame.result /\ frame.result <= r.end

\* an address of the second RAM range of a view whose first ranges are a RAM
\* range and a ROM
C21_Witness ==
    /\ Sampled /\ outcome = "returned"
    /\ frame.view = <<[start |-> 0, end |-> 2, kind |-> "ram"],
                      [start |-> 2, end |-> 5, kind |-> "romd"],
                      [start |-> 8, end |-> 10, kind |-> "ram"]>>
    /\ frame.result = 9

\* C22 (as the specification states it): every byte of a RAM range, from its
\* start through its inclusive end, is the address of some draw.
C22_EveryRamByteReachable ==
    (Sampled /\ outcome = "returned") =>
        \A r \in RamOf(frame.view) : \A byte \in r.start..r.end :
            \E offset \in 0..(SumLens(ram_ranges(frame.view)) - 1) :
                random_address(frame.view, offset) = byte

(***************************************************************************)
(* The Registers singleton: RegistersMeta.__call__ and list_registers,     *)
(* statement by statement, for the threads of a session.  frame holds      *)
(* _instances[Registers] (`instances`), the instances constructed so far   *)
(* with their cached_reg_list (`cache`), how often the debugger was asked  *)
(* for the architecture's registers (`queries`), and for each thread where *)
(* it is, the instance it constructed, the one it holds and what its calls *)
(* returned.                                                               *)
(***************************************************************************)
\* the most calls the session's thread makes, and the most threads
MaxUses == 6
MaxThreads == 2

InitRegisters(n, uses) ==
    /\ mem = InitMem /\ regs = InitRegs /\ paused = TRUE
    /\ snaps = ("base" :> [mem |-> BaseMem, regs |-> InitRegs])
    /\ ops = <<>> /\ logrows = <<>> /\ out = <<>> /\ calls = <<>>
    /\ outcome = "" /\ nuuid = 0 /\ ncmd = 0
    /\ pc = "Registers"
    /\ frame = [cmd |-> "Registers", uses |-> uses, instances |-> None, cache |-> <<>>, queries |-> 0,
                threads |-> [t \in 1..n |->
                    [at |-> "idle", new |-> 0, held |-> 0, returns |-> <<>>]]]

\* thread t moves to `at` with the shared and its own fields changed as given
Step(t, at, shared, own) ==
    /\ frame' = [shared EXCEPT !.threads[t] = [own EXCEPT !.at = at]]
    /\ UNCHANGED <<mem, regs, paused, snaps, ops, logrows, out, calls, outcome,
                   nuuid, ncmd, pc>>

Thread(t) == frame.threads[t]

\* a thread calls Registers()
Registers_call(t) ==
    /\ Thread(t).at = "idle" /\ Len(Thread(t).returns) < frame.uses
    /\ Step(t, "in_instances", frame, Thread(t))

\* if cls not in cls._instances
in_instances(t) ==
    /\ Thread(t).at = "in_instances"
    /\ Step(t, IF frame.instances = None THEN "construct" ELSE "return", frame, Thread(t))

\* super().__call__(*args, **kwargs): a new instance, its cached_reg_list None
construct(t) ==
    /\ Thread(t).at = "construct"
    /\ Step(t, "store", [frame EXCEPT !.cache = Append(@, None)],
            [Thread(t) EXCEPT !.new = Len(frame.cache) + 1])

\* cls._instances[cls] = the new instance
store(t) ==
    /\ Thread(t).at = "store"
    /\ Step(t, "return", [frame EXCEPT !.instances = Some(Thread(t).new)], Thread(t))

\* return cls._instances[cls]
return_instance(t) ==
    /\ Thread(t).at = "return"
    /\ Step(t, "idle", frame,
            [Thread(t) EXCEPT !.held = The(frame.instances),
                              !.returns = Append(@, [call |-> "Registers",
                                                     instance |-> The(frame.instances),
                                                     list |-> <<>>])])

\* a thread calls list_registers() on the instance it holds
list_registers_call(t) ==
    /\ Thread(t).at = "idle" /\ Thread(t).held # 0 /\ Len(Thread(t).returns) < frame.uses
    /\ Step(t, "cached", frame, Thread(t))

\* a variant that never finds the list cached
cached_never(t) ==
    /\ Thread(t).at = "cached"
    /\ Step(t, "enumerate", frame, Thread(t))

\* if self.cached_reg_list is None
cached(t) ==
    /\ Thread(t).at = "cached"
    /\ Step(t, IF frame.cache[Thread(t).held] = None THEN "enumerate" ELSE "copy",
            frame, Thread(t))

\* self.cached_reg_list = the registers of frame.architecture() with a
\* permitted type
enumerate(t) ==
    /\ Thread(t).at = "enumerate"
    /\ Step(t, "copy", [frame EXCEPT !.cache[Thread(t).held] = Some(list_registers),
                                     !.queries = @ + 1], Thread(t))

\* return self.cached_reg_list[:]
copy(t) ==
    /\ Thread(t).at = "copy"
    /\ Step(t, "idle", frame,
            [Thread(t) EXCEPT !.returns = Append(@, [call |-> "list_registers",
                                                     instance |-> Thread(t).held,
                                                     list |-> The(frame.cache[Thread(t).held])])])

NextRegisters ==
    \/ \E t \in DOMAIN frame.threads : Registers_call(t)
    \/ \E t \in DOMAIN frame.threads : in_instances(t)
    \/ \E t \in DOMAIN frame.threads : construct(t)
    \/ \E t \in DOMAIN frame.threads : store(t)
    \/ \E t \in DOMAIN frame.threads : return_instance(t)
    \/ \E t \in DOMAIN frame.threads : list_registers_call(t)
    \/ \E t \in DOMAIN frame.threads : cached(t)
    \/ \E t \in DOMAIN frame.threads : enumerate(t)
    \/ \E t \in DOMAIN frame.threads : copy(t)

\* a session: every call on the debugger's command thread
SpecSingleton == InitRegisters(1, MaxUses) /\ [][NextRegisters]_vars

\* threads that call concurrently: each Registers() and then list_registers()
SpecThreads == InitRegisters(MaxThreads, 2) /\ [][NextRegisters]_vars

\* what the calls of all threads returned
Returned(call) ==
    UNION {{Thread(t).returns[i] : i \in {j \in DOMAIN Thread(t).returns :
                                            Thread(t).returns[j].call = call}} :
           t \in DOMAIN frame.threads}

\* C23: in a session, one instance is constructed and every Registers()
\* returns it; the debugger is asked for the registers at most once and every
\* list_registers() returns the list of that one enumeration.
C23_SingletonAndCachedInventory ==
    frame.cmd = "Registers" =>
        /\ Len(frame.cache) <= 1 /\ frame.queries <= 1
        /\ \A r \in Returned("Registers") : r.instance = 1
        /\ \A r \in Returned("list_registers") : r.instance = 1 /\ r.list = list_registers

\* the calls of the singleton test: Registers() twice, list_registers() twice
C23_Witness ==
    /\ frame.cmd = "Registers" /\ Len(Thread(1).returns) = 4
    /\ [i \in 1..4 |-> Thread(1).returns[i].call] =
            <<"Registers", "Registers", "list_registers", "list_registers">>
    /\ frame.queries = 1 /\ Len(frame.cache) = 1

\* C24 (as the specification states it): whatever the interleaving of the
\* threads' first Registers() calls, one instance is constructed and every
\* caller obtains it.
C24_OneInstanceUnderAnyInterleaving ==
    frame.cmd = "Registers" =>
        /\ Len(frame.cache) <= 1
        /\ \A r \in Returned("Registers") : r.instance = 1

(***************************************************************************)
(* appinject in a session.                                                 *)
(***************************************************************************)
\* parse_address_ranges_file(path): the addresses range(start, end, 1) of the
\* lines of the file
parse_address_ranges_file(file) ==
    UNION {file[i].start..(file[i].end - 1) : i \in DOMAIN file}

\* C25 (as the specification states it): appinject with a count N of at most
\* the number of addresses of the range file returns after N one-byte flips at
\* addresses of the file, and with a larger N returns without any injection.
C25_AppinjectFlipsRequestedCount ==
    (pc = "idle" /\ frame.cmd = "appinject" /\ ncmd = 1) =>
        LET addresses == parse_address_ranges_file(The(frame.args.range_file))
        IN /\ outcome = "returned"
           /\ The(frame.args.count) <= Cardinality(addresses) =>
                /\ Len(calls) = The(frame.args.count)
                /\ \A i \in DOMAIN calls :
                        /\ calls[i].fn = "inject_bitflip" /\ calls[i].width = 1
                        /\ calls[i].at \in addresses
           /\ The(frame.args.count) > Cardinality(addresses) => calls = <<>>

(***************************************************************************)
(* inject: omitted options and a bit outside the width.                    *)
(***************************************************************************)
\* the first command of the session was an inject, and it has ended
FirstInject == pc = "idle" /\ frame.cmd = "inject" /\ ncmd = 1

\* C26 (as the specification states it): an inject that omits --address,
\* --bytewidth or --bit performs one bit flip; without --address the flip is
\* on one byte of RAM.
C26_OmittedOptionsRandomised ==
    (FirstInject /\ None \in {frame.args.address, frame.args.bytewidth, frame.args.bit}) =>
        /\ outcome = "returned"
        /\ Len(calls) = 1 /\ calls[1].fn = "inject_bitflip" /\ Len(calls[1].rows) = 1
        /\ frame.args.address = None => calls[1].width = 1 /\ MemKind(calls[1].at) = "ram"

\* C27 (as the specification states it): an inject whose --bit lies outside
\* the width prints a diagnostic and returns normally, with memory unchanged
\* and nothing logged.
C27_BitOutsideWidthIsUserError ==
    (/\ FirstInject
     /\ None \notin {frame.args.address, frame.args.bytewidth, frame.args.bit}
     /\ The(frame.args.bytewidth) >= 1
     /\ The(frame.args.bit) \notin 0..(8 * The(frame.args.bytewidth) - 1)) =>
        /\ outcome = "returned" /\ out # <<>>
        /\ mem = InitMem /\ logrows = <<>>

(***************************************************************************)
(* One campaign command (autoinject or snapinject) with parameters the     *)
(* validation block rejects, next to parameters it accepts.                *)
(***************************************************************************)
Ns0 == <<"0", "n", "s">>
NsMinus1 == <<"-", "1", "n", "s">>
NoNumber == <<"x", "s">>

CampaignAutoArgs ==
    [times : {Some(-1), Some(0), Some(1)},
     minlit : {Some(Ns1), Some(Ns2), Some(Ns0), Some(NsMinus1), Some(NoUnit), Some(NoNumber)},
     maxlit : {Some(Ns1), Some(Ns2), Some(Ns0), Some(NoNumber)},
     ftype : {Some("ram")}]

CampaignSnapArgs ==
    [times : {Some(-1), Some(0), Some(1)},
     minlit : {Some(Ns1), Some(Ns2), Some(Ns0), Some(NsMinus1), Some(NoUnit), Some(NoNumber)},
     maxlit : {Some(Ns1), Some(Ns2), Some(Ns0), Some(NoNumber)},
     ftype : {Some("ram")}, location : {None}, bit_index : {None},
     observe : {Some(Ns2), Some(Ns0), Some(NoUnit)},
     tag : {None, Some("base")}]

NextCampaign ==
    \/ autoinject(1, CampaignAutoArgs)
    \/ autoinject_iteration
    \/ autoinject_done
    \/ snapinject(1, CampaignSnapArgs)
    \/ snapinject_iteration
    \/ snapinject_done

SpecCampaign == Init /\ [][NextCampaign]_vars

\* a time literal is a positive count followed by one of the units
PositiveTime(s) ==
    \E n \in 1..9, u \in {<<"n", "s">>, <<"u", "s">>, <<"m", "s">>, <<"s">>, <<"m">>} :
        s = <<Dec(n)>> \o u

\* the count of a literal of nanoseconds
NsCount(s) == DigitVal(s[1])

\* the parameters the claim names as invalid
InvalidCampaign(cmd, a) ==
    \/ The(a.times) < 1
    \/ ~PositiveTime(The(a.minlit))
    \/ ~PositiveTime(The(a.maxlit))
    \/ cmd = "snapinject" /\ ~PositiveTime(The(a.observe))
    \/ NsCount(The(a.minlit)) > NsCount(The(a.maxlit))

\* C28: an autoinject or a snapinject given a total fault number below 1, an
\* unparsable or non-positive interval or observe time, or a minimum interval
\* above the maximum prints an error and returns without any bridge
\* operation: the guest's memory, registers and snapshots are untouched.
C28_InvalidCampaignIssuesNothing ==
    (frame.cmd \in {"autoinject", "snapinject"}
        /\ InvalidCampaign(frame.cmd, frame.args)) =>
        /\ pc = "idle" /\ outcome = "returned"
        /\ Len(out) = 1
        /\ out[1] \in {"Error: fatal: times < 1", "Error: ValueError",
                       "Error: fatal: min_interval > max_interval"}
        /\ ops = <<>> /\ logrows = <<>>
        /\ mem = InitMem /\ regs = InitRegs /\ paused
        /\ snaps = ("base" :> [mem |-> BaseMem, regs |-> InitRegs])

\* a snapinject whose minimum interval is above its maximum has been refused
C28_Witness ==
    /\ pc = "idle" /\ frame.cmd = "snapinject" /\ outcome = "returned"
    /\ frame.args.times = Some(1)
    /\ frame.args.minlit = Some(Ns2) /\ frame.args.maxlit = Some(Ns1)
    /\ frame.args.observe = Some(Ns2)
    /\ out = <<"Error: fatal: min_interval > max_interval">>
    /\ ops = <<>>

(***************************************************************************)
(* snapinject: the end of a completed campaign.                            *)
(***************************************************************************)
\* C29 (as the specification states it): every snapinject that completes its
\* campaign ends by sending a carriage return to the guest's serial line,
\* after the observe step and after any loadvm/delvm of a temporary snapshot,
\* and then returns normally.
C29_CompletedSnapinjectSendsCarriageReturn ==
    SnapCompleted =>
        /\ outcome = "returned"
        /\ ops # <<>>
        /\ ops[Len(ops)].op = "send_serial" /\ ops[Len(ops)].arg = "\r"
        /\ \E k \in DOMAIN ops : ops[k].op = "stop_delayed" /\ ops[k].n = frame.obtime

(***************************************************************************)
(* The pagemap walker: merging the physical pages of the selected          *)
(* processes (find_phys_ranges.py).                                        *)
(***************************************************************************)
PAGE_SIZE == 4096
MaxPfn == 6
MaxEntries == 4

\* the order Python gives tuples (start, end)
TupleLess(a, b) == a[1] < b[1] \/ (a[1] = b[1] /\ a[2] < b[2])

RECURSIVE sorted(_)
\* sorted(ranges) of a set of tuples
sorted(ranges) ==
    IF ranges = {} THEN <<>>
    ELSE LET least == CHOOSE a \in ranges : \A b \in ranges \ {a} : TupleLess(a, b)
         IN <<least>> \o sorted(ranges \ {least})

\* a variant of the test that also joins two ranges one page apart
adjacent_or_near(start, last_end) == start - last_end <= PAGE_SIZE

\* the test `start == last_end` of the merging loop
adjacent(start, last_end) == start = last_end

RECURSIVE merge_loop(_, _)
\* the loop of merge_ranges over what is left of sorted_ranges[1:]
merge_loop(merged, rest) ==
    IF rest = <<>> THEN merged
    ELSE LET last == merged[Len(merged)]
             next == Head(rest)
         IN IF adjacent(next[1], last[2])
            THEN merge_loop([merged EXCEPT ![Len(merged)] = <<last[1], next[2]>>], Tail(rest))
            ELSE merge_loop(Append(merged, next), Tail(rest))

\* merge_ranges(ranges)
merge_ranges(ranges) ==
    IF ranges = {} THEN <<>>
    ELSE merge_loop(<<sorted(ranges)[1]>>, Tail(sorted(ranges)))

HexDigits == <<"0", "1", "2", "3", "4", "5", "6", "7", "8", "9",
               "a", "b", "c", "d", "e", "f">>

RECURSIVE Format0x(_, _)
\* f"{n:0{width}x}"
Format0x(n, width) ==
    IF width = 0 THEN (IF n = 0 THEN "" ELSE Format0x(n \div 16, 0) \o HexDigits[(n % 16) + 1])
    ELSE Format0x(n \div 16, width - 1) \o HexDigits[(n % 16) + 1]

\* the line printed for one merged range
RangeLine(r) == "  0x" \o Format0x(r[1], 16) \o "-0x" \o Format0x(r[2], 16)

\* the pagemap entries of the selected processes: read_pagemap_entries keeps
\* the present pages with a frame number other than 0, and two virtual pages
\* (of one process or of two) may share a frame
InitMerge ==
    /\ mem = InitMem /\ regs = InitRegs /\ paused = TRUE
    /\ snaps = ("base" :> [mem |-> BaseMem, regs |-> InitRegs])
    /\ ops = <<>> /\ logrows = <<>> /\ out = <<>> /\ calls = <<>>
    /\ outcome = "" /\ nuuid = 0 /\ ncmd = 0
    /\ pc = "merge_ranges"
    /\ \E n \in 0..MaxEntries : \E pfns \in [1..n -> 1..MaxPfn] :
            frame = [cmd |-> "merge_ranges",
                     entries |-> [i \in 1..n |-> pfns[i] * PAGE_SIZE],
                     all_phys |-> {}, merged_ranges |-> <<>>]

\* the end of the walker: the set of unique pages, merged and printed
merge_ranges_call ==
    /\ pc = "merge_ranges"
    /\ pc' = "idle"
    /\ LET all_phys == {<<frame.entries[i], frame.entries[i] + PAGE_SIZE>> :
                            i \in DOMAIN frame.entries}
       IN /\ frame' = [frame EXCEPT !.all_phys = all_phys,
                                     !.merged_ranges = merge_ranges(all_phys)]
          /\ out' = [i \in DOMAIN merge_ranges(all_phys) |->
                        RangeLine(merge_ranges(all_phys)[i])]
    /\ outcome' = "returned"
    /\ UNCHANGED <<mem, regs, paused, snaps, ops, logrows, calls, nuuid, ncmd>>

NextMerge == merge_ranges_call

SpecMerge == InitMerge /\ [][NextMerge]_vars

Merged == pc = "idle" /\ frame.cmd = "merge_ranges"

\* the pages of an interval [start, end) whose ends are multiples of the page
\* size
PagesOf(r) == {r[1] + k * PAGE_SIZE : k \in 0..(((r[2] - r[1]) \div PAGE_SIZE) - 1)}

\* C30: for a set of unique physical page intervals [p, p + 4096),
\* merge_ranges returns intervals that (i) cover exactly the union of the
\* input pages, (ii) are each a concatenation of contiguous 4 KiB pages,
\* (iii) are sorted and pairwise disjoint, and (iv) are maximal: no interval
\* ends where the next one starts.
C30_MergedRangesAreTheMaximalRuns ==
    Merged =>
        LET R == frame.merged_ranges
        IN /\ \A i \in DOMAIN R :
                /\ R[i][1] < R[i][2]
                /\ R[i][1] % PAGE_SIZE = 0 /\ R[i][2] % PAGE_SIZE = 0
           /\ UNION {PagesOf(R[i]) : i \in DOMAIN R} = {r[1] : r \in frame.all_phys}
           /\ \A r \in frame.all_phys : r[2] = r[1] + PAGE_SIZE
           /\ \A i, j \in DOMAIN R : i < j => R[i][2] <= R[j][1]
           /\ \A i \in 1..(Len(R) - 1) : R[i][2] # R[i + 1][1]

\* frames 5, 1, 2, 5 (one shared): a run of two pages, a gap, a single page
C30_Witness ==
    /\ Merged
    /\ frame.entries = <<5 * PAGE_SIZE, PAGE_SIZE, 2 * PAGE_SIZE, 5 * PAGE_SIZE>>
    /\ frame.merged_ranges = << <<4096, 12288>>, <<20480, 24576>> >>
    /\ out = <<"  0x0000000000001000-0x0000000000003000",
               "  0x0000000000005000-0x0000000000006000">>

(***************************************************************************)
(* parse_args_safely: splitting the argument string, argparse, and the     *)
(* capture of sys.stderr around it (parser.py).                            *)
(***************************************************************************)
MaxPieces == 4

Quotes == {"\"", "'"}

\* the token in progress joined to the tokens read so far
Emit(tokens, token) == IF token = None THEN tokens ELSE Append(tokens, The(token))

\* the token in progress, with more characters
Grown(token, cs) == Some((IF token = None THEN <<>> ELSE The(token)) \o cs)

\* one character read by shlex: quote is the open quotation mark, or ""
shlex_read(st, c) ==
    IF st.quote # ""
    THEN IF c = st.quote THEN [st EXCEPT !.quote = ""]
         ELSE [st EXCEPT !.token = Grown(st.token, <<c>>)]
    ELSE IF c \in Ws \cup {"\n"}
    THEN [st EXCEPT !.token = None, !.tokens = Emit(st.tokens, st.token)]
    ELSE IF c \in Quotes
    THEN [st EXCEPT !.quote = c, !.token = Grown(st.token, <<>>)]
    ELSE [st EXCEPT !.token = Grown(st.token, <<c>>)]

RECURSIVE shlex_scan(_, _)
\* the state of shlex after the first k characters of s
shlex_scan(s, k) ==
    IF k = 0 THEN [quote |-> "", token |-> None, tokens |-> <<>>]
    ELSE The({shlex_read(st, s[k]) : st \in {shlex_scan(s, k - 1)}})

\* the end of the text: ok = FALSE stands for ValueError("No closing
\* quotation")
shlex_end(st) ==
    IF st.quote # "" THEN [ok |-> FALSE, tokens |-> <<>>]
    ELSE [ok |-> TRUE, tokens |-> Emit(st.tokens, st.token)]

\* shlex.split(args_str.strip()) if args_str.strip() else []
shlex_split(args_str) ==
    IF strip(args_str) = <<>> THEN [ok |-> TRUE, tokens |-> <<>>]
    ELSE shlex_end(shlex_scan(strip(args_str), Len(strip(args_str))))

\* the parsers: an option has a flag, a dest, an action ("store" takes one
\* value), a type and is required or not; `words` are the pieces the argument
\* strings given to the parser are made of
Space == <<" ">>
DoubleQuote == <<"\"">>
WordNs == <<"-", "-", "n", "s">>
WordN == <<"-", "-", "n">>
WordRegister == <<"-", "-", "r", "e", "g", "i", "s", "t", "e", "r">>
WordBit == <<"-", "-", "b", "i", "t">>
WordVerbose == <<"-", "-", "v", "e", "r", "b", "o", "s", "e">>
WordUnknown == <<"-", "-", "z">>

StopDelayedParser ==
    [prog |-> "stop_delayed",
     options |-> <<[flag |-> WordNs, dest |-> "ns", action |-> "store",
                    type |-> "int", required |-> TRUE]>>,
     positionals |-> <<>>,
     words |-> {WordNs, WordN, <<"5">>, <<"x">>, Space, DoubleQuote}]

InjectRegParser ==
    [prog |-> "inject_reg",
     options |-> <<[flag |-> WordRegister, dest |-> "register", action |-> "store",
                    type |-> "str", required |-> TRUE],
                   [flag |-> WordBit, dest |-> "bit", action |-> "store",
                    type |-> "int", required |-> TRUE]>>,
     positionals |-> <<>>,
     words |-> {WordRegister, WordBit, <<"5">>, <<"x">>, Space, <<"'">>}]

TestParser ==
    [prog |-> "test",
     options |-> <<[flag |-> WordVerbose, dest |-> "verbose",
                    action |-> "store_true", type |-> "str", required |-> FALSE]>>,
     positionals |-> <<[dest |-> "count", type |-> "int"]>>,
     words |-> {WordVerbose, WordUnknown, <<"5">>, <<"x">>, Space, DoubleQuote}]

Parsers == {StopDelayedParser, InjectRegParser, TestParser}

\* argparse takes a string for an option when it starts with "-", is not
\* the empty string and holds no space
OptionLike(parser, tok) ==
    /\ tok # <<>> /\ Head(tok) = "-"
    /\ \/ \E i \in DOMAIN parser.options : parser.options[i].flag = tok
       \/ \A i \in DOMAIN tok : tok[i] # " "

\* the options a string selects: the one it names, or those it abbreviates
Selected(parser, tok) ==
    LET exact == {i \in DOMAIN parser.options : parser.options[i].flag = tok}
    IN IF exact # {} THEN exact
       ELSE {i \in DOMAIN parser.options :
                Len(tok) >= 2 /\ tok[2] = "-" /\ startswith(parser.options[i].flag, tok)}

\* type(string): the value, or None when the conversion fails
Converted(type, tok) ==
    IF type = "int"
    THEN IF ParseInt(strip(tok), 10).ok THEN Some(ParseInt(strip(tok), 10).val) ELSE None
    ELSE Some(Join(tok))

\* the namespace before any argument is read
Defaults(parser) ==
    [d \in {parser.options[i].dest : i \in DOMAIN parser.options}
           \cup {parser.positionals[i].dest : i \in DOMAIN parser.positionals} |->
        IF \E i \in DOMAIN parser.options :
              parser.options[i].dest = d /\ parser.options[i].action = "store_true"
        THEN Some(FALSE) ELSE None]

\* what the parser requires that the namespace lacks
Missing(parser, seen, npos) ==
    \/ \E i \in DOMAIN parser.options : parser.options[i].required /\ i \notin seen
    \/ npos < Len(parser.positionals)

RECURSIVE parse_args_from(_, _, _, _, _)
\* parser.parse_args(tokens) from the strings left: the namespace, or None
\* for parser.error(), which writes to sys.stderr and raises SystemExit
parse_args_from(parser, tokens, ns, seen, npos) ==
    IF tokens = <<>>
    THEN IF Missing(parser, seen, npos) THEN None ELSE Some(ns)
    ELSE IF OptionLike(parser, Head(tokens))
    THEN IF Cardinality(Selected(parser, Head(tokens))) # 1 THEN None
         ELSE LET i == The(Selected(parser, Head(tokens)))
                  o == parser.options[i]
              IN IF o.action = "store_true"
                 THEN parse_args_from(parser, Tail(tokens), [ns EXCEPT ![o.dest] = Some(TRUE)],
                                      seen \cup {i}, npos)
                 ELSE IF Len(tokens) < 2 \/ OptionLike(parser, tokens[2])
                         \/ Converted(o.type, tokens[2]) = None
                 THEN None
                 ELSE parse_args_from(parser, Tail(Tail(tokens)),
                                      [ns EXCEPT ![o.dest] = Converted(o.type, tokens[2])],
                                      seen \cup {i}, npos)
    ELSE IF npos >= Len(parser.positionals)
            \/ Converted(parser.positionals[npos + 1].type, Head(tokens)) = None
    THEN None
    ELSE parse_args_from(parser, Tail(tokens),
                         [ns EXCEPT ![parser.positionals[npos + 1].dest] =
                                Converted(parser.positionals[npos + 1].type, Head(tokens))],
                         seen, npos + 1)

\* parser.parse_args(args_list)
parse_args(parser, args_list) == parse_args_from(parser, args_list, Defaults(parser), {}, 0)

\* try: ... sys.stderr = StringIO(); parser.parse_args(args_list)
captured_parse(r, parser, args_list) ==
    LET inside == [r EXCEPT !.old_stderr = r.stderr, !.stderr = "StringIO"]
    IN IF parse_args(parser, args_list) = None
       THEN [inside EXCEPT !.captured = "usage: " \o parser.prog, !.exc = "SystemExit"]
       ELSE [inside EXCEPT !.result = parse_args(parser, args_list)]

\* a variant that restores sys.stderr only when parse_args returned
restore_stderr_on_return(r) ==
    IF r.exc # "" THEN r
    ELSE [r EXCEPT !.stderr = r.old_stderr,
                   !.out = IF r.captured # "" THEN Append(@, r.captured) ELSE @]

\* finally: restore sys.stderr and print what was captured
restore_stderr(r) ==
    [r EXCEPT !.stderr = r.old_stderr,
              !.out = IF r.captured # "" THEN Append(@, r.captured) ELSE @]

\* except SystemExit / except Exception
handlers(r) ==
    IF r.exc = "SystemExit" THEN [r EXCEPT !.exc = "", !.result = None]
    ELSE IF r.exc # ""
    THEN [r EXCEPT !.out = Append(@, "Error parsing arguments: " \o r.exc),
                   !.exc = "", !.result = None]
    ELSE r

\* parse_args_safely(parser, args_str), from the locals r of the call
parse_args_safely_body(r, parser, args_str) ==
    IF ~shlex_split(args_str).ok
    THEN handlers([r EXCEPT !.exc = "No closing quotation"])
    ELSE handlers(restore_stderr(captured_parse(r, parser, shlex_split(args_str).tokens)))

RECURSIVE Concat(_)
Concat(words) == IF words = <<>> THEN <<>> ELSE Head(words) \o Concat(Tail(words))

InitArgs ==
    /\ mem = InitMem /\ regs = InitRegs /\ paused = TRUE
    /\ snaps = ("base" :> [mem |-> BaseMem, regs |-> InitRegs])
    /\ ops = <<>> /\ logrows = <<>> /\ out = <<>> /\ calls = <<>>
    /\ outcome = "" /\ nuuid = 0 /\ ncmd = 0
    /\ pc = "parse_args_safely"
    /\ \E parser \in Parsers : \E n \in 0..MaxPieces : \E words \in [1..n -> parser.words] :
            frame = [cmd |-> "parse_args_safely", parser |-> parser,
                     args_str |-> Concat(words),
                     stderr |-> "terminal", old_stderr |-> "", captured |-> "",
                     out |-> <<>>, exc |-> "", result |-> None]

\* one call parse_args_safely(parser, args_str)
parse_args_safely_call ==
    /\ pc = "parse_args_safely"
    /\ pc' = "idle"
    /\ frame' = parse_args_safely_body(frame, frame.parser, frame.args_str)
    /\ out' = frame'.out
    /\ outcome' = IF frame'.exc = "" THEN "returned" ELSE frame'.exc
    /\ UNCHANGED <<mem, regs, paused, snaps, ops, logrows, calls, nuuid, ncmd>>

NextArgs == parse_args_safely_call

SpecArgs == InitArgs /\ [][NextArgs]_vars

ArgsParsed == pc = "idle" /\ frame.cmd = "parse_args_safely"

\* a namespace with every dest of the parser, the required ones set
Populated(parser, ns) ==
    /\ DOMAIN ns = DOMAIN Defaults(parser)
    /\ \A i \in DOMAIN parser.options :
            parser.options[i].required => ns[parser.options[i].dest] # None
    /\ \A i \in DOMAIN parser.positionals : ns[parser.positionals[i].dest] # None

\* C31: for every parser and every argument string (schema violations,
\* unknown options, missing required parameters and unbalanced quotes
\* included) parse_args_safely returns a populated record or None, lets no
\* SystemExit and no other exception escape, and leaves sys.stderr the stream
\* it was before the call.
C31_ParseArgsSafelyNeverEscapes ==
    ArgsParsed =>
        /\ outcome = "returned"
        /\ frame.stderr = "terminal"
        /\ frame.result = None \/ Populated(frame.parser, The(frame.result))
        /\ frame.result = None => out # <<>>

\* `--ns x`: argparse has refused the value, the usage text it wrote to the
\* captured stream has been printed and None returned
C31_Witness ==
    /\ ArgsParsed /\ frame.parser = StopDelayedParser
    /\ frame.args_str = WordNs \o Space \o <<"x">>
    /\ frame.result = None /\ outcome = "returned"
    /\ frame.stderr = "terminal" /\ frame.old_stderr = "terminal"
    /\ out = <<"usage: stop_delayed">>

(***************************************************************************)
(* The CSV logger (logger.py) and loginject: a session of loginject        *)
(* commands and of records handed to log_single.                           *)
(***************************************************************************)
MaxLogs == 4

Filenames == {"a.csv", "b.csv"}

\* the records the injection primitives hand to log_single
Records == {<<"0x1000", "0xef", "0xee">>, <<"x1", "0x2", "0x3">>}

\* csv.writer(file).writerow(fields) for fields that need no quoting
writerow(fields) == fields[1] \o "," \o fields[2] \o "," \o fields[3]

Header == writerow(<<"Address/Register", "Old Value", "New Value">>)

\* CsvLogger(filename): open(filename, mode='w') empties the file or creates
\* it, then the header row is written
CsvLogger(files, filename) == [files EXCEPT ![filename] = Some(<<Header>>)]

\* CsvLogger.log: open(self.filename, mode='a') and one row
CsvLogger_log(files, filename, fields) ==
    [files EXCEPT ![filename] =
        Some((IF @ = None THEN <<>> ELSE The(@)) \o <<writerow(fields)>>)]

\* no logger yet, no file yet
InitLogger ==
    /\ mem = InitMem /\ regs = InitRegs /\ paused = TRUE
    /\ snaps = ("base" :> [mem |-> BaseMem, regs |-> InitRegs])
    /\ ops = <<>> /\ logrows = <<>> /\ out = <<>> /\ calls = <<>>
    /\ outcome = "" /\ nuuid = 0 /\ ncmd = 0
    /\ pc = "logger"
    /\ frame = [cmd |-> "logger", logger |-> None,
                files |-> [f \in Filenames |-> None],
                logged |-> [f \in Filenames |-> <<>>],
                last |-> "", n |-> 0]

\* loginject --filename F: init_logger(F) replaces the logger by a new
\* CsvLogger; without --filename the usage is printed
loginject_call ==
    /\ pc = "logger" /\ frame.n < MaxLogs
    /\ \E filename \in {None} \cup {Some(f) : f \in Filenames} :
         IF ~parse_args_safely(<<filename>>)
         THEN /\ out' = Append(out, "usage")
              /\ frame' = [frame EXCEPT !.n = @ + 1, !.last = "loginject"]
         ELSE /\ out' = out
              /\ frame' = [frame EXCEPT !.n = @ + 1, !.last = "loginject",
                                        !.logger = filename,
                                        !.files = CsvLogger(@, The(filename))]
    /\ UNCHANGED <<mem, regs, paused, snaps, ops, logrows, calls, pc, outcome, nuuid, ncmd>>

\* log_single(address_or_register, old_value, new_value): a row of the log
\* when a logger exists, a line on the console otherwise
log_single_call ==
    /\ pc = "logger" /\ frame.n < MaxLogs
    /\ \E fields \in Records :
         IF frame.logger # None
         THEN /\ out' = out
              /\ frame' = [frame EXCEPT
                    !.n = @ + 1, !.last = "log_single",
                    !.files = CsvLogger_log(@, The(frame.logger), fields),
                    !.logged = [@ EXCEPT ![The(frame.logger)] = Append(@, fields)]]
         ELSE /\ out' = Append(out, "Injected bitflip into address/register " \o fields[1])
              /\ frame' = [frame EXCEPT !.n = @ + 1, !.last = "log_single"]
    /\ UNCHANGED <<mem, regs, paused, snaps, ops, logrows, calls, pc, outcome, nuuid, ncmd>>

NextLogger ==
    \/ loginject_call
    \/ log_single_call

SpecLogger == InitLogger /\ [][NextLogger]_vars

\* the rows of the records logged to a file, in the order logged
RowsOf(records) == [i \in DOMAIN records |-> writerow(records[i])]

\* C32 (as the specification states it): once the logger is initialised, a
\* log file consists of the header row followed by one row per record logged
\* to it since, in the order logged; a later command never loses a record
\* already logged.
C32_LogKeepsEveryRecord ==
    (pc = "logger" /\ frame.cmd = "logger") =>
        \A f \in Filenames :
            frame.files[f] # None =>
                The(frame.files[f]) = <<Header>> \o RowsOf(frame.logged[f])

(***************************************************************************)
(* MemoryRange.parse on single lines.                                      *)
(***************************************************************************)
\* the lines: [indent] START-END (prio 0,KIND): NAME, KIND with the white
\* space that follows the comma
LineStarts == {<<"0">>, <<"f", "f">>, <<"1", "0", "0", "0">>}
LineKinds == {<<" ", "r", "a", "m">>, <<" ", "i", "/", "o">>, <<" ", " ">>, <<"r", "a", "m">>}
LineNames == {<<"x">>, <<>>}

RangeLine_text(indent, start, end, kind, name) ==
    indent \o start \o <<"-">> \o end \o <<" ", "(", "p", "r", "i", "o", " ", "0", ",">>
           \o kind \o <<")", ":", " ">> \o name

InitRange ==
    /\ mem = InitMem /\ regs = InitRegs /\ paused = TRUE
    /\ snaps = ("base" :> [mem |-> BaseMem, regs |-> InitRegs])
    /\ ops = <<>> /\ logrows = <<>> /\ out = <<>> /\ calls = <<>>
    /\ outcome = "" /\ nuuid = 0 /\ ncmd = 0
    /\ pc = "MemoryRange.parse"
    /\ \E indent \in {<<>>, <<" ", " ">>}, start \in LineStarts, end \in LineStarts,
          kind \in LineKinds, name \in LineNames :
            frame = [cmd |-> "MemoryRange.parse",
                     line |-> RangeLine_text(indent, start, end, kind, name),
                     result |-> None]

\* one call MemoryRange.parse(line): the range, or ValueError
MemoryRange_parse_call ==
    /\ pc = "MemoryRange.parse"
    /\ pc' = "idle"
    /\ frame' = [frame EXCEPT !.result = MemoryRange_parse(frame.line)]
    /\ outcome' = IF MemoryRange_parse(frame.line) = None THEN "ValueError" ELSE "returned"
    /\ UNCHANGED <<mem, regs, paused, snaps, ops, logrows, out, calls, nuuid, ncmd>>

NextRange == MemoryRange_parse_call

SpecRange == InitRange /\ [][NextRange]_vars

\* C33 (as the specification states it): every line MemoryRange.parse
\* accepts yields a range with start <= end, a non-empty kind and a
\* non-empty name.
C33_AcceptedRangeIsWellFormed ==
    (pc = "idle" /\ frame.cmd = "MemoryRange.parse" /\ outcome = "returned") =>
        /\ The(frame.result).start <= The(frame.result).end
        /\ The(frame.result).kind # ""
        /\ The(frame.result).name # ""

(***************************************************************************)
(* random_address against the straightforward form of the draw.            *)
(***************************************************************************)
RECURSIVE ReferenceWalk(_, _)
\* for (s, e) in ranges: if offset < e - s: return s + offset; offset -= e - s
ReferenceWalk(ranges, offset) ==
    IF ranges = <<>> THEN -1
    ELSE IF offset < Head(ranges).end - Head(ranges).start
    THEN Head(ranges).start + offset
    ELSE ReferenceWalk(Tail(ranges), offset - (Head(ranges).end - Head(ranges).start))

\* C34: for every list of RAM ranges (s, e) and every offset drawn in [0, L),
\* L the sum of e - s, random_address returns, before its final assertion,
\* the address the reference form computes.
C34_RandomAddressIsTheReferenceForm ==
    (Sampled /\ frame.offset # -1) =>
        /\ frame.offset \in 0..(SumLens(ram_ranges(frame.view)) - 1)
        /\ outcome = "returned" /\ frame.result # -1
        /\ frame.result = ReferenceWalk(ram_ranges(frame.view), frame.offset)

\* offset 3 of a view whose RAM ranges are 0-2, an empty one and 8-10: the
\* walk passes two ranges and returns 9
C34_Witness ==
    /\ Sampled /\ outcome = "returned"
    /\ frame.view = <<[start |-> 0, end |-> 2, kind |-> "ram"],
                      [start |-> 4, end |-> 4, kind |-> "ram"],
                      [start |-> 8, end |-> 10, kind |-> "ram"]>>
    /\ frame.offset = 3 /\ frame.result = 9

(***************************************************************************)
(* find_all_descendants: the walk over the parent/child relation of a      *)
(* process listing (find_phys_ranges.py).                                  *)
(***************************************************************************)
MaxPid == 3

\* the lines `pid ppid` of `ps -eo pid,ppid`, one per process, in a listing
\* whose parent column is arbitrary (0 for no parent; cycles included)
Listings == {[p \in 1..MaxPid |-> <<p, parent[p]>>] : parent \in [1..MaxPid -> 0..MaxPid]}

RECURSIVE sorted_pids(_)
\* sorted(all_pids)
sorted_pids(S) ==
    IF S = {} THEN <<>> ELSE <<SetMin(S)>> \o sorted_pids(S \ {SetMin(S)})

\* child_map after the loop over the lines: ppid -> the pids listed under it
child_map_of(listing) ==
    [ppid \in {listing[i][2] : i \in DOMAIN listing} |->
        [k \in DOMAIN SelectSeq(listing, LAMBDA l : l[2] = ppid) |->
            SelectSeq(listing, LAMBDA l : l[2] = ppid)[k][1]]]

\* child_map.get(current, [])
children_of(child_map, current) ==
    IF current \in DOMAIN child_map THEN child_map[current] ELSE <<>>

RECURSIVE visit_unqueued(_, _)
\* a variant of the loop over the children that adds an unseen child to
\* all_pids without queueing it
visit_unqueued(children, f) ==
    IF children = <<>> THEN f
    ELSE visit_unqueued(Tail(children),
                        [f EXCEPT !.all_pids = @ \cup {Head(children)}])

RECURSIVE visit(_, _)
\* for child in child_map.get(current, []): an unseen child joins all_pids
\* and the queue
visit(children, f) ==
    IF children = <<>> THEN f
    ELSE IF Head(children) \notin f.all_pids
    THEN visit(Tail(children), [f EXCEPT !.all_pids = @ \cup {Head(children)},
                                         !.queue = Append(@, Head(children))])
    ELSE visit(Tail(children), f)

InitDescendants ==
    /\ mem = InitMem /\ regs = InitRegs /\ paused = TRUE
    /\ snaps = ("base" :> [mem |-> BaseMem, regs |-> InitRegs])
    /\ ops = <<>> /\ logrows = <<>> /\ out = <<>> /\ calls = <<>>
    /\ outcome = "" /\ nuuid = 0 /\ ncmd = 0
    /\ pc = "find_all_descendants"
    /\ \E listing \in Listings : \E roots \in (SUBSET (1..MaxPid)) \ {{}} :
            frame = [cmd |-> "find_all_descendants", listing |-> listing,
                     pids |-> sorted_pids(roots), child_map |-> <<>>,
                     all_pids |-> {}, queue |-> <<>>, popped |-> <<>>, result |-> <<>>]

\* the lines are read into child_map; all_pids and the queue start as the roots
find_all_descendants_call ==
    /\ pc = "find_all_descendants"
    /\ pc' = "while"
    /\ frame' = [frame EXCEPT !.child_map = child_map_of(frame.listing),
                              !.all_pids = {frame.pids[i] : i \in DOMAIN frame.pids},
                              !.queue = frame.pids]
    /\ UNCHANGED <<mem, regs, paused, snaps, ops, logrows, out, calls, outcome, nuuid, ncmd>>

\* one iteration of `while queue`: popleft, then the loop over the children
while_queue ==
    /\ pc = "while" /\ frame.queue # <<>>
    /\ frame' = visit(children_of(frame.child_map, Head(frame.queue)),
                      [frame EXCEPT !.queue = Tail(@),
                                    !.popped = Append(@, Head(frame.queue))])
    /\ UNCHANGED <<mem, regs, paused, snaps, ops, logrows, out, calls, pc, outcome, nuuid, ncmd>>

\* the queue is empty: return sorted(all_pids)
return_sorted ==
    /\ pc = "while" /\ frame.queue = <<>>
    /\ pc' = "idle"
    /\ frame' = [frame EXCEPT !.result = sorted_pids(frame.all_pids)]
    /\ outcome' = "returned"
    /\ UNCHANGED <<mem, regs, paused, snaps, ops, logrows, out, calls, nuuid, ncmd>>

NextDescendants ==
    \/ find_all_descendants_call
    \/ while_queue
    \/ return_sorted

SpecDescendants == InitDescendants /\ [][NextDescendants]_vars

\* the interpreter keeps running the call
SpecDescendantsLive == SpecDescendants /\ WF_vars(NextDescendants)

RECURSIVE Descendants(_, _)
\* the roots and every process reachable from one by parent-to-child edges
Descendants(listing, S) ==
    LET T == S \cup {listing[i][1] : i \in {j \in DOMAIN listing : listing[j][2] \in S}}
    IN IF T = S THEN S ELSE Descendants(listing, T)

DescendantsDone == pc = "idle" /\ frame.cmd = "find_all_descendants"

\* what find_all_descendants returned is exactly the roots and their
\* descendants, each once, and no PID was taken from the queue twice
DescendantsExact ==
    /\ {frame.result[i] : i \in DOMAIN frame.result} =
            Descendants(frame.listing, {frame.pids[i] : i \in DOMAIN frame.pids})
    /\ \A i, j \in DOMAIN frame.result : i < j => frame.result[i] < frame.result[j]
    /\ \A i, j \in DOMAIN frame.popped : i # j => frame.popped[i] # frame.popped[j]

\* C35: find_all_descendants terminates for every pid/ppid listing, one whose
\* parent relation contains a cycle included, and returns exactly the roots
\* together with every process reachable from a root by parent-to-child
\* edges, each PID once.
C35_DescendantsTerminatesAndIsExact ==
    /\ <>DescendantsDone
    /\ [](DescendantsDone => DescendantsExact)

\* processes 1 and 2 are each other's parent and 3 is a child of 2: from the
\* root 1 the walk has returned all three
C35_Witness ==
    /\ DescendantsDone
    /\ frame.listing = <<<<1, 2>>, <<2, 1>>, <<3, 2>>>>
    /\ frame.pids = <<1>>
    /\ frame.result = <<1, 2, 3>>
    /\ frame.popped = <<1, 2, 3>>

(***************************************************************************)
(* The outer loop of _parse_mtree_output, one iteration at a time.         *)
(***************************************************************************)
InitMtreeLoop ==
    /\ mem = InitMem /\ regs = InitRegs /\ paused = TRUE
    /\ snaps = ("base" :> [mem |-> BaseMem, regs |-> InitRegs])
    /\ ops = <<>> /\ logrows = <<>> /\ out = <<>> /\ calls = <<>>
    /\ outcome = "" /\ nuuid = 0 /\ ncmd = 0
    /\ pc = "mtree_while"
    /\ \E n \in 1..MaxViews : \E fvs \in [1..n -> Sections] :
            frame = [cmd |-> "mtree_while", flatviews |-> fvs, lines |-> TextLines(fvs),
                     i |-> 1, views |-> <<>>, warned |-> <<>>, iterations |-> 0,
                     early |-> {},
                     result |-> [exc |-> None, views |-> <<>>, warned |-> <<>>]]

\* how a section ended: at the next FlatView line met by its first loop
\* ("header"), by its second loop ("ranges"), or otherwise ("")
EarlyReturn(lines, start_index, section) ==
    IF section.i > Len(lines) \/ ~startswith(rstrip(lines[section.i]), FlatViewPrefix) THEN {}
    ELSE IF header_lines(lines, start_index + 1, <<>>, <<>>).at = "return" THEN {"header"}
    ELSE {"ranges"}

\* the loop goes on after a section, or the section's exception ends the call
mtree_after_section(section) ==
    IF section.exc # None
    THEN /\ pc' = "idle"
         /\ outcome' = The(section.exc)
         /\ frame' = [frame EXCEPT !.iterations = @ + 1,
                         !.result = [exc |-> section.exc, views |-> <<>>, warned |-> frame.warned]]
    ELSE /\ pc' = pc
         /\ outcome' = outcome
         /\ frame' = [frame EXCEPT !.i = section.i, !.iterations = @ + 1,
                                   !.views = Update(@, section.views),
                                   !.warned = @ \o section.warned,
                                   !.early = @ \cup EarlyReturn(frame.lines, frame.i, section)]

\* one iteration of `while i < len(lines)`
mtree_iteration ==
    /\ pc = "mtree_while" /\ frame.i <= Len(frame.lines)
    /\ IF startswith(rstrip(frame.lines[frame.i]), FlatViewPrefix)
       THEN \E section \in {parse_flatview_section(frame.lines, frame.i)} :
                mtree_after_section(section)
       ELSE /\ pc' = pc
            /\ outcome' = outcome
            /\ frame' = [frame EXCEPT !.i = @ + 1, !.iterations = @ + 1,
                            !.warned = IF rstrip(frame.lines[frame.i]) # <<>>
                                       THEN Append(@, "Warning: Unexpected line in mtree output")
                                       ELSE @]
    /\ UNCHANGED <<mem, regs, paused, snaps, ops, logrows, out, calls, nuuid, ncmd>>

\* the loop is over: the views are parsed and returned
mtree_return ==
    /\ pc = "mtree_while" /\ frame.i > Len(frame.lines)
    /\ pc' = "idle"
    /\ \E result \in {with_flatviews([exc |-> None, views |-> frame.views,
                                       warned |-> frame.warned])} :
            /\ frame' = [frame EXCEPT !.result = result]
            /\ out' = out \o result.warned
    /\ outcome' = "returned"
    /\ UNCHANGED <<mem, regs, paused, snaps, ops, logrows, calls, nuuid, ncmd>>

NextMtreeLoop ==
    \/ mtree_iteration
    \/ mtree_return

\* the interpreter keeps running the call: weak fairness of the loop's steps,
\* WF_vars(NextMtreeLoop), written out.  A step of the loop is possible
\* exactly while pc = "mtree_while" (an iteration while lines are left, the
\* return after the last one), so ENABLED <<NextMtreeLoop>>_vars is that test.
MtreeLoopFair ==
    \/ []<>(pc # "mtree_while")
    \/ []<><<NextMtreeLoop>>_vars

SpecMtreeLoop == InitMtreeLoop /\ [][NextMtreeLoop]_vars /\ MtreeLoopFair

\* C36: _parse_mtree_output terminates on every finite sequence of lines:
\* the line index grows on every iteration of the outer loop, also when
\* _parse_flatview_section returns early at the next `FlatView #` line, met
\* among the AS lines or among the range lines.
C36_MtreeLoopTerminates ==
    /\ [][(pc = "mtree_while" /\ pc' = "mtree_while") => frame'.i > frame.i]_vars
    /\ [](pc = "mtree_while" => frame.iterations <= Len(frame.lines))
    /\ <>(pc = "idle" /\ frame.cmd = "mtree_while")

\* a text of two sections has been parsed to the end, the first section
\* having returned at the second one's header from its loop over the AS lines
C36_Witness ==
    /\ pc = "idle" /\ frame.cmd = "mtree_while" /\ outcome = "returned"
    /\ Len(frame.flatviews) = 2 /\ ~frame.flatviews[1].root
    /\ frame.early = {"header"}
    /\ frame.iterations = 2
    /\ frame.i = Len(frame.lines) + 1

====
